---- MODULE Spec2Model ----
(***************************************************************************)
(* Workspace Isolation Kernel of hatch-sh (apps/desktop/src-tauri).        *)
(*                                                                         *)
(* The model covers the Git Operation Coordinator of lib.rs: the per-repo  *)
(* priority queues, the worker loop of each repo, cancellation and the     *)
(* 60-second timeout, and the process-wide mutex of the Worktree Lifecycle *)
(* Manager together with the command handlers that perform structural     *)
(* worktree edits.                                                         *)
(*                                                                         *)
(* Every section of code that runs under the coordinator mutex is one      *)
(* atomic action. The worker loop is cut at its suspension points: the     *)
(* mutex acquisition at the top of the loop, the select! that waits for    *)
(* cancel / timeout / dispatch, and the mutex acquisition after the result *)
(* has been sent.                                                          *)
(***************************************************************************)
EXTENDS Integers, Sequences, FiniteSets, TLC

\* ------------------------------------------------------------------ bounds
\* Number of enqueue calls explored (ids git-op-1 .. git-op-MaxOps).
MaxOps == 3
\* Successful cancel calls recorded for one operation id.
MaxCancels == 2
\* Worker tasks that can be alive for one repo_root at the same time.
MaxWorkersPerRepo == 2
\* Lines of a `git worktree list --porcelain` output given to the parser.
MaxLines == 4

\* -------------------------------------------------------------- vocabulary
Repos == {"r1", "r2"}

\* enum GitOperationPriority
Priorities == {"critical", "normal", "low"}

\* Keys of the handler table that the model distinguishes: a read-only
\* command and the two structural worktree commands.
StructuralCommands == {"git_create_workspace_branch", "git_delete_workspace_branch"}
Commands == {"git_status"} \cup StructuralCommands

\* A command name that is no key of the handler table.
UnknownCommands == {"git_frobnicate"}

\* Result strings of the worker loop.
OperationCancelled == "Operation cancelled"
OperationTimedOut == "Operation timed out after 60 seconds"
HandlerOk == "Ok"
HandlerErr == "Err"
NoResult == "none"
UnsupportedCommand == "Unsupported coordinated command"
InvalidParams == "Invalid params for"
ErrorResults ==
    {HandlerErr, OperationCancelled, OperationTimedOut, UnsupportedCommand,
     InvalidParams}

\* What the history keeps of the result of an operation the worker has counted.
Delivered == "delivered"

OpIds == 1 .. MaxOps
WorkerSlots == 1 .. MaxWorkersPerRepo

\* Option::None for records.
None == [id |-> 0]

VARIABLES
    next_operation_id,  \* GitCoordinatorState.next_operation_id
    repos,              \* GitCoordinatorState.repos : repo_root -> RepoQueueState
    worker,             \* the process_repo_queue tasks, per repo_root and slot
    opHist,             \* history per operation id, see NoOpHist
    repoHist,           \* history per repo_root, see NoRepoHist
    status_reply,       \* the GitCoordinatorQueueStatus the last status call returned
    processes,          \* per repo_root, the operations whose external git process is alive
    operation_lock,     \* WorktreeLifecycleManager.operation_lock
    manager,            \* the Lifecycle Manager operation each caller is in
    call,               \* position, argument and result of each caller's call
    git,                \* the git repository of the repo_root the calls name
    classified,         \* the last entry derive_worktree_health was applied to
    parsed              \* a `git worktree list --porcelain` output and what the parser made of it

vars ==
    <<next_operation_id, repos, worker, opHist, repoHist, status_reply, processes,
      operation_lock, manager, call, git, classified, parsed>>

coordVars ==
    <<next_operation_id, repos, worker, opHist, repoHist, status_reply, processes>>

managerVars == <<operation_lock, manager, call, git, classified, parsed>>

\* ------------------------------------------------------------- data model
\* RepoQueueState::default()
DefaultRepoQueueState ==
    [pending |-> <<>>, running |-> None, completed_count |-> 0,
     failed_count |-> 0, worker_active |-> FALSE]

\* A process_repo_queue task that does not exist (never spawned, or returned).
NoWorker ==
    [pc |-> "none", op |-> None, cmd |-> "idle", cancel_rx |-> FALSE,
     res |-> NoResult, guard |-> FALSE]

\* `self.state.lock().await` returns: no task holds a guard of the
\* coordinator mutex. (A call holds its guard only inside its own step.)
StateLockFree == \A r \in Repos, k \in WorkerSlots : ~worker[r][k].guard

\* History of one operation while the coordinator holds it (pending or
\* running): the value sent on its result one-shot, the number of cancel
\* calls that returned true for it, and where the first of them found it.
\* WorkerFinish reduces it to RetiredOpHist; an operation cancelled while
\* pending keeps its history.
NoOpHist == [result |-> NoResult, cancel_true |-> 0, cancelled_as |-> "no"]
RetiredOpHist == [result |-> Delivered, cancel_true |-> 0, cancelled_as |-> "no"]

\* History of one repo_root: enqueue calls, Ok and Err values sent on result
\* one-shots (by the worker or by cancel), operations removed from the pending
\* deque by cancel, and the lowest priority class a worker has popped so far.
NoRepoHist ==
    [enqueued |-> 0, ok_sent |-> 0, err_sent |-> 0, cancelled_pending |-> 0,
     lowest_started |-> "none"]

\* guard.repos.entry(repo_root).or_default() / guard.repos.get(&repo_root)
QueueOf(r) == IF r \in DOMAIN repos THEN repos[r] ELSE DefaultRepoQueueState

SetQueue(r, q) == [x \in (DOMAIN repos) \cup {r} |-> IF x = r THEN q ELSE repos[x]]

\* `+= 1` on a counter. The model keeps counters up to MaxOps, the number of
\* operations that have distinct ids; beyond it a counter stays where it is.
CountUp(n) == IF n < MaxOps THEN n + 1 ELSE n

\* critical > normal > low
Rank(p) == CASE p = "critical" -> 2 [] p = "normal" -> 1 [] p = "low" -> 0

LowerOf(p, q) == IF q = "none" \/ Rank(p) < Rank(q) THEN p ELSE q

\* ------------------------------------------------------- sequence helpers
\* Iterator::position(pred).unwrap_or(queue.len()), as a 1-based insert index.
PositionOrLen(queue, matching) ==
    IF \E i \in 1 .. Len(queue) : queue[i].priority \in matching
    THEN CHOOSE i \in 1 .. Len(queue) :
            /\ queue[i].priority \in matching
            /\ \A j \in 1 .. (i - 1) : queue[j].priority \notin matching
    ELSE Len(queue) + 1

\* VecDeque::insert(index, value)
InsertAt(queue, at, e) ==
    SubSeq(queue, 1, at - 1) \o <<e>> \o SubSeq(queue, at, Len(queue))

\* A remove that leaves the deque as it was.
RemoveNothing(queue, at) == queue

\* VecDeque::remove(index)
RemoveAt(queue, at) ==
    SubSeq(queue, 1, at - 1) \o SubSeq(queue, at + 1, Len(queue))

\* queue.pending.iter().position(|entry| entry.operation.id == operation_id)
PendingIndex(queue, id) ==
    IF \E i \in 1 .. Len(queue) : queue[i].id = id
    THEN CHOOSE i \in 1 .. Len(queue) :
            /\ queue[i].id = id
            /\ \A j \in 1 .. (i - 1) : queue[j].id # id
    ELSE 0

\* ----------------------------------------------- queue_insert_by_priority
IsNotCritical == Priorities \ {"critical"}
IsLow == {"low"}

\* A slip in the Critical arm: scans for the first Low entry.
queue_insert_critical_before_low(queue, operation) ==
    IF operation.priority = "low"
    THEN Append(queue, operation)
    ELSE InsertAt(queue, PositionOrLen(queue, IsLow), operation)

\* A slip in the Normal arm: a Normal entry is pushed to the back.
queue_insert_normal_at_back(queue, operation) ==
    IF operation.priority = "critical"
    THEN InsertAt(queue, PositionOrLen(queue, IsNotCritical), operation)
    ELSE Append(queue, operation)

\* Last in, first out within a class: the entry goes in front of the entries
\* of its own class.
queue_insert_front_of_class(queue, operation) ==
    CASE operation.priority = "critical" ->
            InsertAt(queue, 1, operation)
      [] operation.priority = "normal" ->
            InsertAt(queue, PositionOrLen(queue, IsNotCritical), operation)
      [] operation.priority = "low" ->
            InsertAt(queue, PositionOrLen(queue, IsLow), operation)

\* A plain FIFO: every entry is pushed to the back.
queue_push_back(queue, operation) == Append(queue, operation)

queue_insert_by_priority(queue, operation) ==
    CASE operation.priority = "critical" ->
            InsertAt(queue, PositionOrLen(queue, IsNotCritical), operation)
      [] operation.priority = "normal" ->
            InsertAt(queue, PositionOrLen(queue, IsLow), operation)
      [] operation.priority = "low" ->
            Append(queue, operation)

\* ------------------------------------------------ GitCoordinator::enqueue
\* `if !queue.worker_active` : only then is a worker task spawned.
SpawnAlways(queue) == TRUE

\* A coordinator with one worker for all repos: no task is spawned while a
\* task of any repo is alive.
SpawnWhenNoWorkerAnywhere(queue) ==
    /\ ~queue.worker_active
    /\ \A r \in Repos, k \in WorkerSlots : worker[r][k].pc = "none"

\* A spawn test that looks at the running record, not at worker_active.
SpawnWhenNothingRunning(queue) == queue.running = None

ShouldSpawnWorker(queue) == ~queue.worker_active

\* The slot the spawned task takes (0: the model has no slot left).
FreeSlot(r) ==
    IF \E k \in WorkerSlots : worker[r][k].pc = "none"
    THEN CHOOSE k \in WorkerSlots :
            /\ worker[r][k].pc = "none"
            /\ \A j \in WorkerSlots : worker[r][j].pc = "none" => k <= j
    ELSE 0

\* The params payload of a request, an untyped JSON value: an object with
\* the repoPath the command schemas of the model require, or a value
\* without it.
ParamsFor(repo_path) == <<repo_path>>
ParamsWithoutRepoPath == <<>>

\* A partition by the directory the command is going to work in.
partition_by_repo_path(operation) ==
    IF operation.params = ParamsWithoutRepoPath
    THEN operation.repo_root
    ELSE operation.params[1]

\* `queued_operation.operation.repo_root.clone()`: the key of guard.repos is
\* the repo_root string of the request as it came.
partition_key(operation) == operation.repo_root

\* An id that keeps one bit of the counter.
operation_id_of_low_bit(counter) == ((counter - 1) % 2) + 1

\* format!("git-op-{}", guard.next_operation_id): the model names the id
\* "git-op-n" by the number n.
operation_id(counter) == counter

\* enqueue of a request with any params payload. The payload is stored with
\* the queued operation and is not looked at.
EnqueueRequest(r, p, c, params) ==
    /\ next_operation_id < MaxOps
    /\ StateLockFree
    /\ LET id == operation_id(next_operation_id + 1)
           operation == [id |-> id, repo_root |-> r, command |-> c, priority |-> p,
                         params |-> params]
           key == partition_key(operation)
           queue == QueueOf(key)
           spawn == ShouldSpawnWorker(queue)
           slot == FreeSlot(key)
       IN /\ next_operation_id' = next_operation_id + 1
          /\ repos' = SetQueue(key,
                [queue EXCEPT !.pending = queue_insert_by_priority(@, operation),
                              !.worker_active = IF spawn THEN TRUE ELSE @])
          /\ worker' = IF spawn /\ slot # 0
                       THEN [worker EXCEPT ![key][slot] = [NoWorker EXCEPT !.pc = "pop"]]
                       ELSE worker
          /\ repoHist' = [repoHist EXCEPT ![key].enqueued = CountUp(@)]
    /\ UNCHANGED <<opHist, processes>>
    /\ UNCHANGED <<status_reply, managerVars>>

\* enqueue of a request whose params name the repo_root as repoPath.
Enqueue(r, p, c) == EnqueueRequest(r, p, c, ParamsFor(r))

\* Operations the coordinator has forgotten: the result is delivered, the
\* worker has counted it and its external process has ended.
Forgotten ==
    {id \in OpIds :
        /\ opHist[id] = RetiredOpHist
        /\ \A r \in Repos : id \notin processes[r]
        /\ \A r \in Repos, k \in WorkerSlots : worker[r][k].op.id # id}

\* enqueue once MaxOps ids are in use. Ids matter only by equality, so the
\* model names the new operation with the id of a forgotten one instead of
\* next_operation_id + 1; the rest is Enqueue.
EnqueueAgain(r, p, c) ==
    /\ next_operation_id = MaxOps
    /\ StateLockFree
    /\ \E id \in Forgotten :
          LET operation == [id |-> id, repo_root |-> r, command |-> c, priority |-> p,
                            params |-> ParamsFor(r)]
              queue == QueueOf(r)
              spawn == ShouldSpawnWorker(queue)
              slot == FreeSlot(r)
          IN /\ repos' = SetQueue(r,
                   [queue EXCEPT !.pending = queue_insert_by_priority(@, operation),
                                 !.worker_active = IF spawn THEN TRUE ELSE @])
             /\ worker' = IF spawn /\ slot # 0
                          THEN [worker EXCEPT ![r][slot] = [NoWorker EXCEPT !.pc = "pop"]]
                          ELSE worker
             /\ opHist' = [opHist EXCEPT ![id] = NoOpHist]
             /\ repoHist' = [repoHist EXCEPT ![r].enqueued = CountUp(@)]
    /\ UNCHANGED <<next_operation_id, processes>>
    /\ UNCHANGED <<status_reply, managerVars>>

\* ------------------------------------------------- GitCoordinator::status
\* No status call has returned yet.
NoReply == [repo_root |-> ""]

\* queue.running.as_ref().map(|running| running.operation.clone())
OperationOf(running) ==
    IF running = None
    THEN None
    ELSE [id |-> running.id, repo_root |-> running.repo_root,
          command |-> running.command, priority |-> running.priority]

\* A lookup that inserts a default entry for a missing key.
repos_entry_or_default(r) == SetQueue(r, QueueOf(r))

\* guard.repos.get(&repo_root): the map after the lookup.
repos_get(r) == repos

\* A pending count that includes the running operation.
status_counting_running(r) ==
    [repo_root |-> r,
     pending_count |-> Len(QueueOf(r).pending)
                        + (IF QueueOf(r).running = None THEN 0 ELSE 1),
     running_operation |-> OperationOf(QueueOf(r).running),
     completed_count |-> QueueOf(r).completed_count,
     failed_count |-> QueueOf(r).failed_count]

\* The GitCoordinatorQueueStatus built under the coordinator mutex.
status(r) ==
    IF r \in DOMAIN repos
    THEN [repo_root |-> r,
          pending_count |-> Len(repos[r].pending),
          running_operation |-> OperationOf(repos[r].running),
          completed_count |-> repos[r].completed_count,
          failed_count |-> repos[r].failed_count]
    ELSE [repo_root |-> r, pending_count |-> 0, running_operation |-> None,
          completed_count |-> 0, failed_count |-> 0]

Status(r) ==
    /\ StateLockFree
    /\ status_reply' = status(r)
    /\ repos' = repos_get(r)
    /\ UNCHANGED <<next_operation_id, worker, opHist, repoHist, processes>>
    /\ UNCHANGED managerVars

\* ------------------------------------------------- GitCoordinator::cancel
\* The repo whose pending deque holds the id ("" when none does).
RepoPending(id) ==
    IF \E r \in DOMAIN repos : PendingIndex(repos[r].pending, id) # 0
    THEN CHOOSE r \in DOMAIN repos : PendingIndex(repos[r].pending, id) # 0
    ELSE ""

\* The repo whose `running` record has the id ("" when none has).
RepoRunning(id) ==
    IF \E r \in DOMAIN repos : repos[r].running.id = id
    THEN CHOOSE r \in DOMAIN repos : repos[r].running.id = id
    ELSE ""

\* cancel_tx.send(()): the receiver is the cancel_rx of the task that
\* published the running record, while that task is still in its select!.
SendCancel(r, slot, id) ==
    IF /\ slot # 0
       /\ worker[r][slot].pc = "select"
       /\ worker[r][slot].op.id = id
    THEN [worker EXCEPT ![r][slot].cancel_rx = TRUE]
    ELSE worker

\* The value cancel(id) returns when it takes the coordinator mutex now.
CancelReturns(id) == (RepoPending(id) # "") \/ (RepoRunning(id) # "")

Cancel(id) ==
    /\ opHist[id].cancel_true < MaxCancels
    /\ StateLockFree
    /\ LET rp == RepoPending(id)
           rr == RepoRunning(id)
           ret == CancelReturns(id)
       IN /\ IF rp # ""
             THEN \* pending.remove(index); sender.send(Err("Operation cancelled"))
                  /\ repos' = [repos EXCEPT ![rp].pending =
                                    RemoveAt(@, PendingIndex(@, id))]
                  /\ opHist' = [opHist EXCEPT ![id] =
                        [result |-> OperationCancelled,
                         cancel_true |-> IF ret THEN @.cancel_true + 1 ELSE @.cancel_true,
                         cancelled_as |-> IF ret THEN "pending" ELSE @.cancelled_as]]
                  /\ repoHist' = [repoHist EXCEPT ![rp].err_sent = CountUp(@),
                                                  ![rp].cancelled_pending = CountUp(@)]
                  /\ UNCHANGED worker
             ELSE IF rr # ""
             THEN \* running.cancel_tx.take() and send; return true either way
                  /\ repos' = [repos EXCEPT ![rr].running.cancel_tx = 0]
                  /\ worker' = SendCancel(rr, repos[rr].running.cancel_tx, id)
                  /\ opHist' = [opHist EXCEPT ![id] =
                        [@ EXCEPT !.cancel_true = IF ret THEN @ + 1 ELSE @,
                                  !.cancelled_as =
                                      IF ret /\ @ = "no" THEN "running" ELSE @]]
                  /\ UNCHANGED repoHist
             ELSE UNCHANGED <<repos, worker, opHist, repoHist>>
    /\ UNCHANGED <<next_operation_id, processes>>
    /\ UNCHANGED <<status_reply, managerVars>>

\* ----------------------------------------- execute_coordinated_git_command
\* A dispatch that treats every name as a key of the handler table.
DispatchRunsAnything(command) == "running"

\* The state of the dispatch future once it exists: a handler of the table is
\* running its external command; the `_` arm is an Err value with nothing run.
DispatchStarts(command) ==
    IF command \in Commands THEN "running" ELSE "unsupported"

\* A deserialization that takes every payload.
from_value_lenient(params) == TRUE

\* serde_json::from_value(params) into the schema of the command: Ok when
\* the payload has the required repoPath.
from_value(params) == Len(params) = 1

\* The dispatch future at its first poll: the `_` arm and a payload that does
\* not deserialize are Err values, ready at once, with no handler called.
FirstPoll(operation) ==
    IF DispatchStarts(operation.command) # "running"
    THEN DispatchStarts(operation.command)
    ELSE IF from_value(operation.params) THEN "running" ELSE "invalid_params"

\* ------------------------------------- GitCoordinator::process_repo_queue
\* A worker that leaves its loop after the first operation it has counted.
exit_after_first_operation(queue) ==
    queue.pending = <<>> \/ queue.completed_count + queue.failed_count > 0

\* A worker that keeps its guard of the coordinator mutex while the command
\* is dispatched.
guard_held_over_dispatch(next) == TRUE

\* The guard the task holds after `let (queued_operation, cancel_rx) = { ... };`:
\* it is dropped at the end of the block.
guard_after_block(next) == FALSE

\* A worker that takes the front of the deque and leaves it there.
front_left_in_deque(pending) == pending

\* The deque after `queue.pending.pop_front()`
pop_front(pending) == Tail(pending)

\* `if queue.pending.is_empty()` at the top of the loop
pending_is_empty(queue) == queue.pending = <<>>

\* A worker that returns and leaves worker_active set.
exit_keeps_worker_active(queue) == [queue EXCEPT !.running = None]

\* `queue.worker_active = false; queue.running = None; break;`
worker_exits(queue) == [queue EXCEPT !.worker_active = FALSE, !.running = None]

\* Top of the loop, under the coordinator mutex: exit on an empty deque,
\* otherwise pop the front and publish it as `running`.
WorkerPop(r, k) ==
    /\ worker[r][k].pc = "pop"
    /\ StateLockFree
    /\ IF r \notin DOMAIN repos
       THEN /\ worker' = [worker EXCEPT ![r][k] = NoWorker]
            /\ UNCHANGED <<repos, repoHist, processes>>
       ELSE IF pending_is_empty(repos[r])
       THEN /\ repos' = [repos EXCEPT ![r] = worker_exits(@)]
            /\ worker' = [worker EXCEPT ![r][k] = NoWorker]
            /\ UNCHANGED <<repoHist, processes>>
       ELSE LET next == Head(repos[r].pending)
            IN /\ repos' = [repos EXCEPT
                    ![r].pending = pop_front(@),
                    ![r].running = [id |-> next.id, repo_root |-> next.repo_root,
                                    command |-> next.command,
                                    priority |-> next.priority, cancel_tx |-> k]]
               /\ worker' = [worker EXCEPT ![r][k] =
                    [pc |-> "select", op |-> next, cmd |-> FirstPoll(next),
                     cancel_rx |-> FALSE, res |-> NoResult,
                     guard |-> guard_after_block(next)]]
               /\ repoHist' = [repoHist EXCEPT ![r].lowest_started =
                                    LowerOf(next.priority, @)]
               /\ processes' = IF FirstPoll(next) = "running"
                                THEN [processes EXCEPT ![r] = @ \cup {next.id}]
                                ELSE processes
    /\ UNCHANGED <<next_operation_id, opHist>>
    /\ UNCHANGED <<status_reply, managerVars>>

\* The dispatch future (execute_coordinated_git_command) becomes ready; this
\* can still happen after the deadline, until the worker task is polled.
CommandCompletes(r, k, outcome) ==
    /\ worker[r][k].pc = "select"
    /\ worker[r][k].cmd \in {"running", "elapsed"}
    /\ worker' = [worker EXCEPT ![r][k].cmd = outcome]
    /\ processes' = [processes EXCEPT ![r] = @ \ {worker[r][k].op.id}]
    /\ UNCHANGED <<next_operation_id, repos, opHist, repoHist>>
    /\ UNCHANGED <<status_reply, managerVars>>

\* Duration::from_secs(60) elapses while the dispatch future is not ready.
TimerFires(r, k) ==
    /\ worker[r][k].pc = "select"
    /\ worker[r][k].cmd = "running"
    /\ worker' = [worker EXCEPT ![r][k].cmd = "elapsed"]
    /\ UNCHANGED <<next_operation_id, repos, opHist, repoHist, processes>>
    /\ UNCHANGED <<status_reply, managerVars>>

\* tokio::time::timeout(timeout_duration, &mut dispatch_future): the inner
\* future is polled first, the deadline second.
TimeoutOutcomes(w) ==
    IF w.cmd = "ok" THEN {HandlerOk}
    ELSE IF w.cmd = "err" THEN {HandlerErr}
    ELSE IF w.cmd = "unsupported" THEN {UnsupportedCommand}
    ELSE IF w.cmd = "invalid_params" THEN {InvalidParams}
    ELSE IF w.cmd = "elapsed" THEN {OperationTimedOut}
    ELSE {}

\* A select! without the timeout arm's own message: the deadline is
\* reported like a handler error.
SelectOutcomesNoTimeoutMessage(w) ==
    (IF w.cancel_rx THEN {OperationCancelled} ELSE {})
        \cup (IF w.cmd = "ok" THEN {HandlerOk}
              ELSE IF w.cmd \in {"err", "elapsed"} THEN {HandlerErr}
              ELSE IF w.cmd = "unsupported" THEN {UnsupportedCommand} ELSE {})

\* tokio::select! over cancel_rx and the timeout: any ready arm may win.
SelectOutcomes(w) ==
    (IF w.cancel_rx THEN {OperationCancelled} ELSE {}) \cup TimeoutOutcomes(w)

\* select! resolves; completed_operation is stamped; the result is sent on
\* result_tx. No coordinator state is touched.
WorkerSelect(r, k) ==
    /\ worker[r][k].pc = "select"
    /\ \E res \in SelectOutcomes(worker[r][k]) :
          /\ worker' = [worker EXCEPT ![r][k].pc = "finish", ![r][k].res = res]
          /\ opHist' = [opHist EXCEPT ![worker[r][k].op.id].result = res]
          /\ repoHist' = IF res \in ErrorResults
                         THEN [repoHist EXCEPT ![r].err_sent = CountUp(@)]
                         ELSE [repoHist EXCEPT ![r].ok_sent = CountUp(@)]
    /\ UNCHANGED <<next_operation_id, repos, processes>>
    /\ UNCHANGED <<status_reply, managerVars>>

\* `match execution_result { Ok(_) => completed_count += 1, Err(_) => failed_count += 1 }`
CountAsFailedAlways(res) == TRUE

CountsAsFailed(res) == res \in ErrorResults

\* A loop that is left after a failed operation.
StopOnError(res) == IF res \in ErrorResults THEN "none" ELSE "pop"

\* `loop { ... }` : after the counter update the task is back at the top of
\* the loop, whatever the result was.
AfterCounting(res) == "pop"

\* A command whose child process is killed when its future is dropped
\* (Command::kill_on_drop(true)).
kill_on_drop(alive, id) == alive \ {id}

\* dispatch_future goes out of scope at the end of the loop body. The child
\* of a tokio::process::Command is left running when its handle is dropped.
drop_dispatch_future(alive, id) == alive

\* Bottom of the loop, under the coordinator mutex: clear `running`, count.
WorkerFinish(r, k) ==
    /\ worker[r][k].pc = "finish"
    /\ \A q \in Repos, j \in WorkerSlots : <<q, j>> # <<r, k>> => ~worker[q][j].guard
    /\ repos' = IF r \in DOMAIN repos
                THEN [repos EXCEPT
                        ![r].running = None,
                        ![r].completed_count =
                            IF CountsAsFailed(worker[r][k].res) THEN @ ELSE CountUp(@),
                        ![r].failed_count =
                            IF CountsAsFailed(worker[r][k].res) THEN CountUp(@) ELSE @]
                ELSE repos
    /\ worker' = [worker EXCEPT ![r][k] =
                    [NoWorker EXCEPT !.pc = AfterCounting(worker[r][k].res)]]
    /\ opHist' = [opHist EXCEPT ![worker[r][k].op.id] = RetiredOpHist]
    /\ processes' = [processes EXCEPT ![r] = drop_dispatch_future(@, worker[r][k].op.id)]
    /\ UNCHANGED <<next_operation_id, repoHist>>
    /\ UNCHANGED <<status_reply, managerVars>>

\* The environment: an external git process that no task awaits any more
\* comes to its end.
ProcessExits(r, id) ==
    /\ id \in processes[r]
    /\ \A k \in WorkerSlots : worker[r][k].op.id # id
    /\ processes' = [processes EXCEPT ![r] = @ \ {id}]
    /\ UNCHANGED <<next_operation_id, repos, worker, opHist, repoHist>>
    /\ UNCHANGED <<status_reply, managerVars>>

\* ------------------------------------------------- the git repository
\* The repository of one repo_root as the `git` commands of the Lifecycle
\* Manager see and change it.
WorkspaceIds == {"alpha", "beta"}

\* format!("workspace/{}", workspace_id)
BranchName(ws) == "workspace/" \o ws

\* repo_path.join("worktrees").join(workspace_id), relative to repo_root
WorktreePath(ws) == "worktrees/" \o ws

PrimaryPath == "."
\* A worktree that was not added by the Lifecycle Manager.
ForeignPath == "elsewhere"
Paths == {PrimaryPath, ForeignPath} \cup {WorktreePath(ws) : ws \in WorkspaceIds}
\* The order in which `git worktree list` prints: the main worktree first.
PathOrder == <<PrimaryPath, WorktreePath("alpha"), WorktreePath("beta"), ForeignPath>>

DefaultBranch == "main"
ActiveAgent == "active-agent"

\* Option<String>: <<>> is None, <<s>> is Some(s).
NoString == <<>>
Some(str) == <<str>>

\* A path that is no worktree of the repository and not on disk.
NoWorktree ==
    [registered |-> FALSE, branch |-> NoString, locked |-> FALSE,
     lock_reason |-> NoString, dir |-> FALSE, dot_git |-> "missing",
     index_lock |-> FALSE]

\* The git subcommands the Lifecycle Manager runs. At most one of them is
\* broken at a time: it exits with an error whatever the repository holds (no
\* network for fetch, an administrative directory that cannot be written
\* for prune, ...).
GitSubcommands ==
    {"list", "fetch", "branch", "add", "lock", "unlock", "remove",
     "branch_delete", "prune", "repair"}

\* output.status.success() is possible for the subcommand.
Runs(g, subcommand) == g.broken # subcommand

\* Registered worktrees that have the branch checked out.
CheckedOut(g, branch) ==
    {p \in Paths : g.wt[p].registered /\ g.wt[p].branch = Some(branch)}

\* `git fetch origin`
GitFetch(g) == IF Runs(g, "fetch") THEN [g EXCEPT !.fetched = TRUE] ELSE g

\* `git branch <branch> origin/<default>`: fails with "already exists" when
\* the branch is there.
GitBranchOk(g, branch) == branch \notin g.branches
GitBranch(g, branch) == [g EXCEPT !.branches = @ \cup {branch}]

\* `git worktree add <path> <branch>`: refuses a path that exists, a branch
\* that does not exist and a branch that another worktree has checked out.
GitWorktreeAddOk(g, path, branch) ==
    /\ Runs(g, "add")
    /\ ~g.wt[path].registered
    /\ ~g.wt[path].dir
    /\ branch \in g.branches
    /\ CheckedOut(g, branch) = {}
GitWorktreeAdd(g, path, branch) ==
    [g EXCEPT !.wt[path] =
        [registered |-> TRUE, branch |-> Some(branch), locked |-> FALSE,
         lock_reason |-> NoString, dir |-> TRUE, dot_git |-> "gitdir_file",
         index_lock |-> FALSE]]

\* `git worktree lock --reason <reason> <path>`: refuses the main worktree, a
\* path that is no worktree and a worktree that is locked already.
GitWorktreeLockOk(g, path) ==
    Runs(g, "lock") /\ path # PrimaryPath /\ g.wt[path].registered /\ ~g.wt[path].locked
GitWorktreeLock(g, path, reason) ==
    [g EXCEPT !.wt[path].locked = TRUE, !.wt[path].lock_reason = Some(reason)]

\* `git worktree unlock <path>`: "is not locked" for an unlocked worktree,
\* "is not a working tree" for any other path.
GitWorktreeUnlockOk(g, path) ==
    Runs(g, "unlock") /\ path # PrimaryPath /\ g.wt[path].registered /\ g.wt[path].locked
GitWorktreeUnlockNotLocked(g, path) ==
    Runs(g, "unlock") /\ path # PrimaryPath /\ g.wt[path].registered /\ ~g.wt[path].locked
GitWorktreeUnlock(g, path) ==
    [g EXCEPT !.wt[path].locked = FALSE, !.wt[path].lock_reason = NoString]

\* `git worktree remove --force <path>`: one --force does not remove a locked
\* worktree; the main worktree is never removed.
GitWorktreeRemoveOk(g, path) ==
    Runs(g, "remove") /\ path # PrimaryPath /\ g.wt[path].registered /\ ~g.wt[path].locked
GitWorktreeRemove(g, path) == [g EXCEPT !.wt[path] = NoWorktree]

\* `git branch -D <branch>`: refuses a branch that a worktree has checked out.
GitBranchDeleteOk(g, branch) ==
    Runs(g, "branch_delete") /\ branch \in g.branches /\ CheckedOut(g, branch) = {}
GitBranchDelete(g, branch) == [g EXCEPT !.branches = @ \ {branch}]

\* A worktree whose directory is gone is reported as prunable.
IsPrunable(g, path) ==
    path # PrimaryPath /\ g.wt[path].registered /\ ~g.wt[path].dir

\* `git worktree prune`: drops the prunable worktrees that are not locked.
GitWorktreePruneOk(g) == Runs(g, "prune")
GitWorktreePrune(g) ==
    [g EXCEPT !.wt = [p \in Paths |->
        IF IsPrunable(g, p) /\ ~g.wt[p].locked THEN NoWorktree ELSE g.wt[p]]]

\* ------------------------------------- `git worktree list --porcelain`
\* A line of output is a sequence of tokens: the key, and when something
\* follows it a " " and the tokens of the rest; <<>> is the blank line.
PorcelainRecord(g, path) ==
    <<  <<"worktree", " ", path>>, <<"HEAD", " ", "sha">>  >>
    \o (IF g.wt[path].branch = NoString
        THEN << <<"detached">> >>
        ELSE << <<"branch", " ", "refs/heads/", g.wt[path].branch[1]>> >>)
    \o (IF ~g.wt[path].locked THEN <<>>
        ELSE IF g.wt[path].lock_reason = NoString THEN << <<"locked">> >>
        ELSE << <<"locked", " ", g.wt[path].lock_reason[1]>> >>)
    \o (IF IsPrunable(g, path)
        THEN << <<"prunable", " ", "gitdir file points to non-existent location">> >>
        ELSE <<>>)
    \o << <<>> >>

RECURSIVE PorcelainFrom(_, _)
PorcelainFrom(g, n) ==
    IF n > Len(PathOrder) THEN <<>>
    ELSE (IF g.wt[PathOrder[n]].registered
          THEN PorcelainRecord(g, PathOrder[n]) ELSE <<>>)
         \o PorcelainFrom(g, n + 1)

\* stdout of a successful `git worktree list --porcelain`
Porcelain(g) == PorcelainFrom(g, 1)

\* ------------------------------------------- parse_worktree_list_porcelain
\* line.starts_with("<key> ")
StartsWithKey(line, key) == Len(line) >= 2 /\ line[1] = key /\ line[2] = " "

\* line == "<key>" || line.starts_with("<key> ")
IsKeyLine(line, key) == line = <<key>> \/ StartsWithKey(line, key)

\* str::trim_start_matches(prefix): every leading repetition is removed.
RECURSIVE TrimStartMatches(_, _)
TrimStartMatches(tokens, prefix) ==
    IF tokens # <<>> /\ Head(tokens) = prefix
    THEN TrimStartMatches(Tail(tokens), prefix)
    ELSE tokens

\* The text of a sequence of tokens.
RECURSIVE Text(_)
Text(tokens) == IF tokens = <<>> THEN "" ELSE Head(tokens) \o Text(Tail(tokens))

\* line.trim_start_matches("<key> "): every leading "<key> " is removed.
RECURSIVE TrimKey(_, _)
TrimKey(tokens, key) ==
    IF StartsWithKey(tokens, key)
    THEN TrimKey(SubSeq(tokens, 3, Len(tokens)), key)
    ELSE tokens

\* The tokens after "<key> ".
Rest(line) == TrimKey(line, line[1])

\* str::trim(): leading and trailing white space is removed.
RECURSIVE Trim(_)
Trim(tokens) ==
    IF tokens # <<>> /\ Head(tokens) = " " THEN Trim(Tail(tokens))
    ELSE IF tokens # <<>> /\ tokens[Len(tokens)] = " "
    THEN Trim(SubSeq(tokens, 1, Len(tokens) - 1))
    ELSE tokens

NewEntry(line) ==
    [path |-> Text(Rest(line)), branch |-> NoString, head |-> "",
     is_locked |-> FALSE, lock_reason |-> NoString, is_prunable |-> FALSE]

\* The `if let Some(entry) = current.as_mut()` block for one line.
UpdateEntry(entry, line) ==
    IF StartsWithKey(line, "branch")
    THEN [entry EXCEPT !.branch = Some(Text(TrimStartMatches(Rest(line), "refs/heads/")))]
    ELSE IF StartsWithKey(line, "HEAD")
    THEN [entry EXCEPT !.head = Text(Rest(line))]
    ELSE IF IsKeyLine(line, "prunable")
    THEN [entry EXCEPT !.is_prunable = TRUE]
    ELSE IF IsKeyLine(line, "locked")
    THEN [entry EXCEPT !.is_locked = TRUE,
                       !.lock_reason =
                           IF Trim(TrimStartMatches(line, "locked")) = <<>> THEN @
                           ELSE Some(Text(Trim(TrimStartMatches(line, "locked"))))]
    ELSE entry

\* The loop over output.lines(); `current` is <<>> or <<entry>>.
RECURSIVE ParseLines(_, _, _)
ParseLines(lines, entries, current) ==
    IF lines = <<>> THEN entries \o current
    ELSE LET line == Head(lines)
         IN IF StartsWithKey(line, "worktree")
            THEN ParseLines(Tail(lines), entries \o current, <<NewEntry(line)>>)
            ELSE IF current # <<>>
            THEN ParseLines(Tail(lines), entries, <<UpdateEntry(current[1], line)>>)
            ELSE ParseLines(Tail(lines), entries, current)

\* A parser that emits a record only when the next one starts.
parse_without_last_record(output) ==
    IF ParseLines(output, <<>>, <<>>) = <<>> THEN <<>>
    ELSE SubSeq(ParseLines(output, <<>>, <<>>), 1, Len(ParseLines(output, <<>>, <<>>)) - 1)

parse_worktree_list_porcelain(output) == ParseLines(output, <<>>, <<>>)

\* WorktreeLifecycleManager::list_internal on a repository where the git
\* command succeeds.
list_internal(g) == parse_worktree_list_porcelain(Porcelain(g))

\* ------------------------------------------------ derive_worktree_health
\* The shapes of the `.git` entry of a worktree directory: no entry, a
\* directory, a file "gitdir: <path>" whose path exists, the same with a path
\* that does not exist, a file with other contents, a file that cannot be
\* read as text.
DotGitShapes ==
    {"missing", "dir", "gitdir_file", "gitdir_dangling", "other_file", "unreadable_file"}

\* What the file system answers for `<worktree>/.git` of each shape: exists(),
\* is_dir(), read_to_string() (<<>> is Err, <<tokens>> the trimmed contents)
\* and exists() of the path the contents name.
DotGit(shape) ==
    CASE shape = "missing" ->
            [exists |-> FALSE, is_dir |-> FALSE, read |-> <<>>, target_exists |-> FALSE]
      [] shape = "dir" ->
            [exists |-> TRUE, is_dir |-> TRUE, read |-> <<>>, target_exists |-> FALSE]
      [] shape = "gitdir_file" ->
            [exists |-> TRUE, is_dir |-> FALSE,
             read |-> << <<"gitdir:", " ", "admin">> >>, target_exists |-> TRUE]
      [] shape = "gitdir_dangling" ->
            [exists |-> TRUE, is_dir |-> FALSE,
             read |-> << <<"gitdir:", " ", "gone">> >>, target_exists |-> FALSE]
      [] shape = "other_file" ->
            [exists |-> TRUE, is_dir |-> FALSE,
             read |-> << <<"ref:", " ", "refs/heads/main">> >>, target_exists |-> FALSE]
      [] shape = "unreadable_file" ->
            [exists |-> TRUE, is_dir |-> FALSE, read |-> <<>>, target_exists |-> FALSE]

\* str::strip_prefix(prefix): <<>> is None, <<rest>> is Some(rest).
StripPrefix(tokens, prefix) ==
    IF tokens # <<>> /\ Head(tokens) = prefix THEN <<Tail(tokens)>> ELSE <<>>

\* A validity test that accepts every `.git` entry that exists.
metadata_valid_if_exists(g, path) == DotGit(g.wt[path].dot_git).exists

worktree_metadata_is_valid(g, path) ==
    LET git_entry == DotGit(g.wt[path].dot_git)
    IN IF ~git_entry.exists THEN FALSE
       ELSE IF git_entry.is_dir THEN TRUE
       ELSE IF git_entry.read = <<>> THEN FALSE
       ELSE IF StripPrefix(git_entry.read[1], "gitdir:") = <<>> THEN FALSE
       ELSE git_entry.target_exists

\* A classifier that looks at the lock before the metadata.
derive_health_lock_first(g, entry) ==
    IF ~g.wt[entry.path].dir \/ entry.is_prunable THEN "orphaned"
    ELSE IF entry.is_locked THEN "locked"
    ELSE IF ~worktree_metadata_is_valid(g, entry.path) THEN "corrupted"
    ELSE "healthy"

derive_worktree_health(g, entry) ==
    IF ~g.wt[entry.path].dir \/ entry.is_prunable THEN "orphaned"
    ELSE IF ~worktree_metadata_is_valid(g, entry.path) THEN "corrupted"
    ELSE IF entry.is_locked THEN "locked"
    ELSE "healthy"

\* Option::unwrap_or_default for Option<String>
unwrap_or_default(opt) == IF opt = NoString THEN "" ELSE opt[1]

\* The WorktreeLifecycleInfo that list builds for one entry.
LifecycleInfo(g, entry) ==
    [path |-> entry.path, branch |-> unwrap_or_default(entry.branch),
     head_commit |-> entry.head, is_locked |-> entry.is_locked,
     lock_reason |-> entry.lock_reason,
     health_status |-> derive_worktree_health(g, entry)]

\* WorktreeLifecycleManager::list on a repository where the git command
\* succeeds.
list(g) ==
    LET entries == list_internal(g)
    IN [n \in 1 .. Len(entries) |-> LifecycleInfo(g, entries[n])]

\* ------------------------------------------------ WorktreeLifecycleManager
ManagerCallers == {"m1", "m2"}
ManagerOperations == {"create", "remove", "repair"}

\* Results of the Lifecycle Manager's calls.
CallOk == "Ok"
DuplicateBranch(branch) ==
    "Branch '" \o branch \o "' is already used by another worktree"
FailedToCreateWorktree == "Failed to create worktree: "
FailedToLock == "git worktree lock failed"
FailedToUnlock == "Failed to unlock worktree: "
FailedToRemove == "git worktree remove failed"
FailedToList == "git worktree list failed"
FailedToCreateBranch == "Failed to create branch: "
FailedToReadMetadata == "Failed to read git metadata for "
FailedToRepair == "git worktree repair failed"
FailedToPrune == "git worktree prune failed"

\* A caller that is in no call.
NoCreateResult ==
    [branch_name |-> "", worktree_path |-> "", is_locked |-> FALSE,
     lock_reason |-> NoString, health_status |-> ""]

IdleCall ==
    [pc |-> "idle", ws |-> "", result |-> "", created |-> NoCreateResult,
     listed |-> <<>>]

FirstStep(operation) ==
    CASE operation = "create" -> "check"
      [] operation = "remove" -> "unlock"
      [] operation = "repair" -> "repair"

\* `let _guard = self.operation_lock.lock().await;` at the top of
\* create / remove / repair. A remove call names the worktree and the branch
\* of a workspace id.
ManagerBegin(c, operation, ws) ==
    /\ manager[c] = "idle"
    /\ operation_lock = "free"
    /\ operation_lock' = c
    /\ manager' = [manager EXCEPT ![c] = operation]
    /\ call' = [call EXCEPT ![c] = [IdleCall EXCEPT !.pc = FirstStep(operation), !.ws = ws]]
    /\ UNCHANGED git
    /\ UNCHANGED <<coordVars, classified, parsed>>

\* The call returns and `_guard` is dropped.
ManagerEnd(c) ==
    /\ manager[c] \in ManagerOperations
    /\ call[c].pc = "return"
    /\ operation_lock' = "free"
    /\ manager' = [manager EXCEPT ![c] = "idle"]
    /\ call' = [call EXCEPT ![c] = IdleCall]
    /\ UNCHANGED git
    /\ UNCHANGED <<coordVars, classified, parsed>>

\* The call of c returns the result.
Return(c, result) == [call EXCEPT ![c].pc = "return", ![c].result = result]

Goto(c, pc) == [call EXCEPT ![c].pc = pc]

\* A pre-check that finds no worktree on any branch.
BranchInUseNever(entries, branch) == FALSE

\* existing.iter().any(|entry| entry.branch.as_deref() == Some(branch_name))
BranchInUse(entries, branch) ==
    \E n \in 1 .. Len(entries) : entries[n].branch = Some(branch)

\* create: list_internal and the duplicate-branch check.
CreateCheck(c) ==
    /\ manager[c] = "create" /\ call[c].pc = "check"
    /\ call' = IF ~Runs(git, "list")
               THEN Return(c, FailedToList)
               ELSE IF BranchInUse(list_internal(git), BranchName(call[c].ws))
               THEN Return(c, DuplicateBranch(BranchName(call[c].ws)))
               ELSE Goto(c, "branch")
    /\ UNCHANGED <<git, operation_lock, manager>>
    /\ UNCHANGED <<coordVars, classified, parsed>>

\* git_create_workspace_branch up to `git branch`: create_dir_all of the
\* worktrees directory, the best-effort fetch, and the branch creation, whose
\* "already exists" failure is ignored.
CreateBranch(c) ==
    /\ manager[c] = "create" /\ call[c].pc = "branch"
    /\ LET made == [git EXCEPT !.worktrees_dir = TRUE]
           fetched == GitFetch(made)
           branch == BranchName(call[c].ws)
       IN IF ~Runs(git, "branch")
          THEN git' = fetched /\ call' = Return(c, FailedToCreateBranch)
          ELSE /\ git' = IF GitBranchOk(fetched, branch)
                         THEN GitBranch(fetched, branch) ELSE fetched
               /\ call' = Goto(c, "add")
    /\ UNCHANGED <<operation_lock, manager>>
    /\ UNCHANGED <<coordVars, classified, parsed>>

\* git_create_workspace_branch: `git worktree add`; a failure propagates.
CreateWorktreeAdd(c) ==
    /\ manager[c] = "create" /\ call[c].pc = "add"
    /\ LET path == WorktreePath(call[c].ws)
           branch == BranchName(call[c].ws)
       IN IF GitWorktreeAddOk(git, path, branch)
          THEN git' = GitWorktreeAdd(git, path, branch) /\ call' = Goto(c, "lock")
          ELSE git' = git /\ call' = Return(c, FailedToCreateWorktree)
    /\ UNCHANGED <<operation_lock, manager>>
    /\ UNCHANGED <<coordVars, classified, parsed>>

\* A create that does not lock the worktree it has added.
LockNothing(g, path, reason) == g

\* lock_worktree(repo_root, worktree_path, "active-agent")
lock_worktree(g, path, reason) == GitWorktreeLock(g, path, reason)

\* The WorktreeCreateResult of a successful create.
CreateResult(ws) ==
    [branch_name |-> BranchName(ws), worktree_path |-> WorktreePath(ws),
     is_locked |-> TRUE, lock_reason |-> Some(ActiveAgent),
     health_status |-> "locked"]

\* create: the lock step and the result.
CreateLock(c) ==
    /\ manager[c] = "create" /\ call[c].pc = "lock"
    /\ LET path == WorktreePath(call[c].ws)
       IN IF GitWorktreeLockOk(git, path)
          THEN /\ git' = lock_worktree(git, path, ActiveAgent)
               /\ call' = [call EXCEPT ![c].pc = "return", ![c].result = CallOk,
                                       ![c].created = CreateResult(call[c].ws)]
          ELSE git' = git /\ call' = Return(c, FailedToLock)
    /\ UNCHANGED <<operation_lock, manager>>
    /\ UNCHANGED <<coordVars, classified, parsed>>

\* cleanup_index_lock_for_worktree returns Ok: `.git` is no file, or a file
\* that read_to_string can read.
cleanup_index_lock_ok(g, path) ==
    LET git_file == DotGit(g.wt[path].dot_git)
    IN ~(git_file.exists /\ ~git_file.is_dir) \/ git_file.read # <<>>

\* A cleanup that looks for the index.lock under a `.git` directory only.
cleanup_direct_lock_only(g, path) ==
    IF DotGit(g.wt[path].dot_git).exists /\ DotGit(g.wt[path].dot_git).is_dir
    THEN [g EXCEPT !.wt[path].index_lock = FALSE]
    ELSE g

\* cleanup_index_lock_for_worktree: the index.lock is removed from `.git`
\* when that is a directory, and from the path a `gitdir:` file names.
cleanup_index_lock_for_worktree(g, path) ==
    LET git_file == DotGit(g.wt[path].dot_git)
    IN IF git_file.exists /\ git_file.is_dir
       THEN [g EXCEPT !.wt[path].index_lock = FALSE]
       ELSE IF /\ git_file.exists
               /\ git_file.read # <<>>
               /\ StripPrefix(git_file.read[1], "gitdir:") # <<>>
               /\ git_file.target_exists
       THEN [g EXCEPT !.wt[path].index_lock = FALSE]
       ELSE g

\* An unlock for which every failure of `git worktree unlock` is an error.
unlock_strict(g, path) ==
    IF GitWorktreeUnlockOk(g, path)
    THEN [ok |-> TRUE, git |-> GitWorktreeUnlock(g, path)]
    ELSE [ok |-> FALSE, git |-> g]

\* unlock_worktree: Ok when `git worktree unlock` succeeds or its stderr
\* contains "is not locked", Err("Failed to unlock worktree: ...") otherwise.
unlock_worktree(g, path) ==
    IF GitWorktreeUnlockOk(g, path)
    THEN [ok |-> TRUE, git |-> GitWorktreeUnlock(g, path)]
    ELSE IF GitWorktreeUnlockNotLocked(g, path)
    THEN [ok |-> TRUE, git |-> g]
    ELSE [ok |-> FALSE, git |-> g]

\* remove: the index.lock cleanup, whose error propagates, and
\* unlock_worktree, for which "is not locked" is a success.
RemoveUnlock(c) ==
    /\ manager[c] = "remove" /\ call[c].pc = "unlock"
    /\ LET path == WorktreePath(call[c].ws)
           cleaned == cleanup_index_lock_for_worktree(git, path)
       IN IF ~cleanup_index_lock_ok(git, path)
          THEN git' = git /\ call' = Return(c, FailedToReadMetadata)
          ELSE IF unlock_worktree(cleaned, path).ok
          THEN git' = unlock_worktree(cleaned, path).git /\ call' = Goto(c, "remove")
          ELSE git' = cleaned /\ call' = Return(c, FailedToUnlock)
    /\ UNCHANGED <<operation_lock, manager>>
    /\ UNCHANGED <<coordVars, classified, parsed>>

\* remove: `git worktree remove --force`; a failure propagates.
RemoveWorktree(c) ==
    /\ manager[c] = "remove" /\ call[c].pc = "remove"
    /\ LET path == WorktreePath(call[c].ws)
       IN IF GitWorktreeRemoveOk(git, path)
          THEN git' = GitWorktreeRemove(git, path) /\ call' = Goto(c, "finish")
          ELSE git' = git /\ call' = Return(c, FailedToRemove)
    /\ UNCHANGED <<operation_lock, manager>>
    /\ UNCHANGED <<coordVars, classified, parsed>>

\* A remove that leaves the branch.
KeepBranch(g, branch) == g

\* `let _ = run_git(repo_root, &["branch", "-D", branch_name]).await;`
delete_branch_best_effort(g, branch) ==
    IF GitBranchDeleteOk(g, branch) THEN GitBranchDelete(g, branch) ELSE g

\* remove: the best-effort `git branch -D` and `git worktree prune`.
RemoveFinish(c) ==
    /\ manager[c] = "remove" /\ call[c].pc = "finish"
    /\ LET deleted == delete_branch_best_effort(git, BranchName(call[c].ws))
       IN git' = IF GitWorktreePruneOk(deleted) THEN GitWorktreePrune(deleted) ELSE deleted
    /\ call' = Return(c, CallOk)
    /\ UNCHANGED <<operation_lock, manager>>
    /\ UNCHANGED <<coordVars, classified, parsed>>

\* repair_internal: `git worktree repair` and `git worktree prune`; a failure
\* of either propagates.
RepairPrune(c) ==
    /\ manager[c] = "repair" /\ call[c].pc = "repair"
    /\ IF ~Runs(git, "repair")
       THEN git' = git /\ call' = Return(c, FailedToRepair)
       ELSE IF ~GitWorktreePruneOk(git)
       THEN git' = git /\ call' = Return(c, FailedToPrune)
       ELSE git' = GitWorktreePrune(git) /\ call' = Goto(c, "cleanup")
    /\ UNCHANGED <<operation_lock, manager>>
    /\ UNCHANGED <<coordVars, classified, parsed>>

RECURSIVE CleanupAll(_, _)
CleanupAll(g, entries) ==
    IF entries = <<>> THEN g
    ELSE CleanupAll(cleanup_index_lock_for_worktree(g, Head(entries).path), Tail(entries))

\* repair_internal: list_internal and the index.lock cleanup of every entry.
RepairCleanup(c) ==
    /\ manager[c] = "repair" /\ call[c].pc = "cleanup"
    /\ IF ~Runs(git, "list")
       THEN git' = git /\ call' = Return(c, FailedToList)
       ELSE git' = CleanupAll(git, list_internal(git)) /\ call' = Return(c, CallOk)
    /\ UNCHANGED <<operation_lock, manager>>
    /\ UNCHANGED <<coordVars, classified, parsed>>

\* list: list_internal and the health of every entry; operation_lock is not
\* taken.
List(c) ==
    /\ manager[c] = "idle"
    /\ manager' = [manager EXCEPT ![c] = "list"]
    /\ call' = [call EXCEPT ![c] =
                    IF Runs(git, "list")
                    THEN [IdleCall EXCEPT !.pc = "return", !.result = CallOk,
                                          !.listed = list(git)]
                    ELSE [IdleCall EXCEPT !.pc = "return", !.result = FailedToList]]
    /\ UNCHANGED <<git, operation_lock>>
    /\ UNCHANGED <<coordVars, classified, parsed>>

\* The list call returns.
ListEnd(c) ==
    /\ manager[c] = "list"
    /\ manager' = [manager EXCEPT ![c] = "idle"]
    /\ call' = [call EXCEPT ![c] = IdleCall]
    /\ UNCHANGED <<git, operation_lock>>
    /\ UNCHANGED <<coordVars, classified, parsed>>

\* No output is there to parse.
NotParsed == [output |-> <<>>, done |-> FALSE, entries |-> <<>>]

\* No entry has been classified.
NotClassified == [health_status |-> ""]

\* derive_worktree_health applied to one parsed entry, with the file system
\* as it is.
Classify(entry) ==
    /\ classified' = [entry |-> entry,
                      health_status |-> derive_worktree_health(git, entry)]
    /\ UNCHANGED <<operation_lock, manager, call, git, parsed>>
    /\ UNCHANGED coordVars

\* The environment: a git subcommand stops or starts working.
Break(subcommand) ==
    /\ git.broken # subcommand
    /\ git' = [git EXCEPT !.broken = subcommand]
    /\ UNCHANGED <<operation_lock, manager, call, classified, parsed>>
    /\ UNCHANGED coordVars

\* The environment: the `.git` file of a worktree becomes a file that
\* read_to_string cannot read (not UTF-8, or no read permission).
Damage(path) ==
    /\ path # PrimaryPath
    /\ git.wt[path].dir
    /\ git.wt[path].dot_git = "gitdir_file"
    /\ git' = [git EXCEPT !.wt[path].dot_git = "unreadable_file"]
    /\ UNCHANGED <<operation_lock, manager, call, classified, parsed>>
    /\ UNCHANGED coordVars

\* The environment: a git process that worked in the worktree has died and
\* left the index.lock in the private git dir of the worktree (the `.git`
\* directory, or the directory the `gitdir:` file names).
StaleLock(path) ==
    /\ git.wt[path].dir
    /\ git.wt[path].dot_git \in {"dir", "gitdir_file"}
    /\ ~git.wt[path].index_lock
    /\ git' = [git EXCEPT !.wt[path].index_lock = TRUE]
    /\ UNCHANGED <<operation_lock, manager, call, classified, parsed>>
    /\ UNCHANGED coordVars

\* The steps inside create, remove and repair.
ManagerStep(c) ==
    \/ CreateCheck(c)
    \/ CreateBranch(c)
    \/ CreateWorktreeAdd(c)
    \/ CreateLock(c)
    \/ RemoveUnlock(c)
    \/ RemoveWorktree(c)
    \/ RemoveFinish(c)
    \/ RepairPrune(c)
    \/ RepairCleanup(c)

\* ----------------------------------------------------------- specification
\* A clone with its main worktree on the default branch.
MainWorktree(branch) ==
    [registered |-> TRUE, branch |-> branch, locked |-> FALSE,
     lock_reason |-> NoString, dir |-> TRUE, dot_git |-> "dir",
     index_lock |-> FALSE]

PlainRepository ==
    [wt |-> [p \in Paths |->
                IF p = PrimaryPath THEN MainWorktree(Some(DefaultBranch))
                ELSE NoWorktree],
     branches |-> {DefaultBranch}, worktrees_dir |-> FALSE, fetched |-> FALSE,
     broken |-> "none"]

Init ==
    /\ next_operation_id = 0
    /\ repos = <<>>
    /\ worker = [r \in Repos |-> [k \in WorkerSlots |-> NoWorker]]
    /\ opHist = [i \in OpIds |-> NoOpHist]
    /\ repoHist = [r \in Repos |-> NoRepoHist]
    /\ status_reply = NoReply
    /\ processes = [r \in Repos |-> {}]
    /\ operation_lock = "free"
    /\ manager = [c \in ManagerCallers |-> "idle"]
    /\ call = [c \in ManagerCallers |-> IdleCall]
    /\ git = PlainRepository
    /\ classified = NotClassified
    /\ parsed = NotParsed

\* The steps of the coordinator's tasks and of its environment that every
\* specification shares: cancel calls, the worker loops, the dispatched
\* command finishing and the 60-second deadline passing.
CoordinatorStep ==
    \/ \E id \in OpIds : Cancel(id)
    \/ \E r \in Repos, k \in WorkerSlots : WorkerPop(r, k)
    \/ \E r \in Repos, k \in WorkerSlots, o \in {"ok", "err"} : CommandCompletes(r, k, o)
    \/ \E r \in Repos, k \in WorkerSlots : TimerFires(r, k)
    \/ \E r \in Repos, k \in WorkerSlots : WorkerSelect(r, k)
    \/ \E r \in Repos, k \in WorkerSlots : WorkerFinish(r, k)

\* One repo_root, every priority class.
Next ==
    \/ \E p \in Priorities : Enqueue("r1", p, "git_status")
    \/ CoordinatorStep

Spec == Init /\ [][Next]_vars

\* The runtime polls every spawned task that can make progress, and the
\* 60-second deadline of a dispatched command that is not ready passes.
Fairness ==
    \A r \in Repos, k \in WorkerSlots :
        /\ WF_vars(WorkerPop(r, k))
        /\ WF_vars(TimerFires(r, k))
        /\ WF_vars(WorkerSelect(r, k))
        /\ WF_vars(WorkerFinish(r, k))

\* One repo_root, the default priority.
NextLive ==
    \/ Enqueue("r1", "normal", "git_status")
    \/ CoordinatorStep

SpecLive == Init /\ [][NextLive]_vars /\ Fairness

\* Every repo_root, the default priority (request.priority.unwrap_or(Normal)).
\* Dispatched commands succeed; the 60-second deadline passes on r1 only.
NextRepos ==
    \/ \E r \in Repos : Enqueue(r, "normal", "git_status")
    \/ \E id \in OpIds : Cancel(id)
    \/ \E r \in Repos, k \in WorkerSlots : WorkerPop(r, k)
    \/ \E r \in Repos, k \in WorkerSlots : CommandCompletes(r, k, "ok")
    \/ \E k \in WorkerSlots : TimerFires("r1", k)
    \/ \E r \in Repos, k \in WorkerSlots : WorkerSelect(r, k)
    \/ \E r \in Repos, k \in WorkerSlots : WorkerFinish(r, k)

SpecRepos == Init /\ [][NextRepos]_vars

\* The tasks of one repo_root are polled; nothing is assumed about the other
\* repo_root, whose dispatched command may run for any length of time.
FairnessOf(r) ==
    \A k \in WorkerSlots :
        /\ WF_vars(WorkerPop(r, k))
        /\ WF_vars(TimerFires(r, k))
        /\ WF_vars(WorkerSelect(r, k))
        /\ WF_vars(WorkerFinish(r, k))

\* Every repo_root, the default priority, no cancel calls.
NextReposNoCancel ==
    \/ \E r \in Repos : Enqueue(r, "normal", "git_status")
    \/ \E r \in Repos, k \in WorkerSlots : WorkerPop(r, k)
    \/ \E r \in Repos, k \in WorkerSlots, o \in {"ok", "err"} : CommandCompletes(r, k, o)
    \/ \E r \in Repos, k \in WorkerSlots : TimerFires(r, k)
    \/ \E r \in Repos, k \in WorkerSlots : WorkerSelect(r, k)
    \/ \E r \in Repos, k \in WorkerSlots : WorkerFinish(r, k)

SpecReposLive == Init /\ [][NextReposNoCancel]_vars /\ FairnessOf("r2")

\* One repo_root, every priority class, command names inside and outside the
\* handler table.
NextUnsupported ==
    \/ \E p \in Priorities, c \in {"git_status"} \cup UnknownCommands :
          Enqueue("r1", p, c)
    \/ CoordinatorStep

SpecUnsupported == Init /\ [][NextUnsupported]_vars

\* One repo_root, every priority class, payloads that match the schema of
\* git_status and payloads that do not.
NextParams ==
    \/ \E p \in Priorities, params \in {ParamsFor("r1"), ParamsWithoutRepoPath} :
          EnqueueRequest("r1", p, "git_status", params)
    \/ CoordinatorStep

SpecParams == Init /\ [][NextParams]_vars

\* Requests for every repo_root whose params all name the directory of r1 as
\* repoPath; every dispatched command succeeds.
NextSameDirectory ==
    \/ \E r \in Repos : EnqueueRequest(r, "normal", "git_status", ParamsFor("r1"))
    \/ \E r \in Repos, k \in WorkerSlots : WorkerPop(r, k)
    \/ \E r \in Repos, k \in WorkerSlots : CommandCompletes(r, k, "ok")
    \/ \E r \in Repos, k \in WorkerSlots : WorkerSelect(r, k)
    \/ \E r \in Repos, k \in WorkerSlots : WorkerFinish(r, k)

SpecSameDirectory == Init /\ [][NextSameDirectory]_vars

\* status calls for a repo_root that is enqueued on and for one that never is.
NextStatus ==
    \/ Enqueue("r1", "normal", "git_status")
    \/ CoordinatorStep
    \/ \E r \in Repos : Status(r)

SpecStatus == Init /\ [][NextStatus]_vars

\* Structural worktree edits: the coordinated commands
\* git_create_workspace_branch and git_delete_workspace_branch on every
\* repo_root, next to direct calls of the Lifecycle Manager.
NextStructural ==
    \/ \E r \in Repos, c \in StructuralCommands : Enqueue(r, "normal", c)
    \/ \E r \in Repos, k \in WorkerSlots : WorkerPop(r, k)
    \/ \E r \in Repos, k \in WorkerSlots, o \in {"ok", "err"} : CommandCompletes(r, k, o)
    \/ \E r \in Repos, k \in WorkerSlots : WorkerSelect(r, k)
    \/ \E r \in Repos, k \in WorkerSlots : WorkerFinish(r, k)
    \/ \E c \in ManagerCallers, o \in ManagerOperations : ManagerBegin(c, o, "alpha")
    \/ \E c \in ManagerCallers : ManagerStep(c)
    \/ \E c \in ManagerCallers : ManagerEnd(c)

SpecStructural == Init /\ [][NextStructural]_vars

\* A worktree that was added with plain git, on a branch or detached.
ForeignWorktree(branch) ==
    [registered |-> TRUE, branch |-> branch, locked |-> FALSE,
     lock_reason |-> NoString, dir |-> TRUE, dot_git |-> "gitdir_file",
     index_lock |-> FALSE]

\* The repositories a repo_root can name when the first call arrives: the
\* main worktree on the default branch or with a detached HEAD, and possibly
\* one more worktree, detached or on the branch of a workspace.
InitialRepositories ==
    {[wt |-> [p \in Paths |->
                 IF p = PrimaryPath THEN MainWorktree(main)
                 ELSE IF p = ForeignPath THEN foreign
                 ELSE NoWorktree],
      branches |-> {DefaultBranch}
                   \cup (IF foreign.branch = NoString THEN {} ELSE {foreign.branch[1]}),
      worktrees_dir |-> FALSE, fetched |-> FALSE, broken |-> "none"] :
        main \in {Some(DefaultBranch), NoString},
        foreign \in {NoWorktree, ForeignWorktree(NoString),
                     ForeignWorktree(Some(BranchName("alpha")))}}

InitLifecycle ==
    /\ next_operation_id = 0
    /\ repos = <<>>
    /\ worker = [r \in Repos |-> [k \in WorkerSlots |-> NoWorker]]
    /\ opHist = [i \in OpIds |-> NoOpHist]
    /\ repoHist = [r \in Repos |-> NoRepoHist]
    /\ status_reply = NoReply
    /\ processes = [r \in Repos |-> {}]
    /\ operation_lock = "free"
    /\ manager = [c \in ManagerCallers |-> "idle"]
    /\ call = [c \in ManagerCallers |-> IdleCall]
    /\ git \in InitialRepositories
    /\ classified = NotClassified
    /\ parsed = NotParsed

\* Calls of the Lifecycle Manager's create, remove, repair and list for the
\* workspaces of one repository.
NextLifecycle ==
    \/ \E c \in ManagerCallers, o \in ManagerOperations, ws \in WorkspaceIds :
          ManagerBegin(c, o, ws)
    \/ \E c \in ManagerCallers : ManagerStep(c)
    \/ \E c \in ManagerCallers : ManagerEnd(c)
    \/ \E c \in ManagerCallers : List(c)
    \/ \E c \in ManagerCallers : ListEnd(c)

SpecLifecycle == InitLifecycle /\ [][NextLifecycle]_vars

\* Calls of create, remove and repair for one workspace while git
\* subcommands fail and `.git` files get damaged.
NextFaults ==
    \/ \E c \in ManagerCallers, o \in ManagerOperations : ManagerBegin(c, o, "alpha")
    \/ \E c \in ManagerCallers : ManagerStep(c)
    \/ \E c \in ManagerCallers : ManagerEnd(c)
    \/ \E subcommand \in GitSubcommands \cup {"none"} : Break(subcommand)
    \/ Damage(WorktreePath("alpha"))

SpecFaults == Init /\ [][NextFaults]_vars

\* Calls of create, remove and repair for one workspace while dead git
\* processes leave index.lock files and `.git` files get damaged.
NextRepair ==
    \/ \E c \in ManagerCallers, o \in ManagerOperations : ManagerBegin(c, o, "alpha")
    \/ \E c \in ManagerCallers : ManagerStep(c)
    \/ \E c \in ManagerCallers : ManagerEnd(c)
    \/ \E path \in {PrimaryPath, WorktreePath("alpha")} : StaleLock(path)
    \/ Damage(WorktreePath("alpha"))

SpecRepair == InitLifecycle /\ [][NextRepair]_vars

\* A command is being dispatched for r: the operation is published as
\* running and its result is not produced.
DispatchInProgress(r) == \E k \in WorkerSlots : worker[r][k].pc = "select"

\* Callers that enqueue on r1 and make their other calls (enqueue on r2,
\* cancel, status) while a command of r1 is being dispatched.
NextCalls ==
    \/ Enqueue("r1", "normal", "git_status")
    \/ DispatchInProgress("r1") /\ Enqueue("r2", "normal", "git_status")
    \/ DispatchInProgress("r1") /\ \E id \in OpIds : Cancel(id)
    \/ DispatchInProgress("r1") /\ Status("r1")
    \/ \E r \in Repos, k \in WorkerSlots : WorkerPop(r, k)
    \/ \E r \in Repos, k \in WorkerSlots : CommandCompletes(r, k, "ok")
    \/ \E r \in Repos, k \in WorkerSlots : WorkerSelect(r, k)
    \/ \E r \in Repos, k \in WorkerSlots : WorkerFinish(r, k)

SpecCalls == Init /\ [][NextCalls]_vars

\* One repo_root, the default priority, and the external processes that were
\* left behind coming to their end at any time.
NextProcesses ==
    \/ Enqueue("r1", "normal", "git_status")
    \/ CoordinatorStep
    \/ \E id \in OpIds : ProcessExits("r1", id)

SpecProcesses == Init /\ [][NextProcesses]_vars

\* One repo_root on which critical and low operations are enqueued without
\* end; every dispatched command finishes or runs into the timeout.
NextForever ==
    \/ \E p \in {"critical", "low"} : Enqueue("r1", p, "git_status")
    \/ \E p \in {"critical", "low"} : EnqueueAgain("r1", p, "git_status")
    \/ \E k \in WorkerSlots : WorkerPop("r1", k)
    \/ \E k \in WorkerSlots : CommandCompletes("r1", k, "ok")
    \/ \E k \in WorkerSlots : TimerFires("r1", k)
    \/ \E k \in WorkerSlots : WorkerSelect("r1", k)
    \/ \E k \in WorkerSlots : WorkerFinish("r1", k)

SpecForever == Init /\ [][NextForever]_vars /\ FairnessOf("r1")

\* What can be on disk at the path of a worktree: nothing, or a directory
\* with a `.git` entry of any shape.
OnDisk ==
    {[dir |-> FALSE, dot_git |-> "missing"]}
        \cup {[dir |-> TRUE, dot_git |-> shape] : shape \in DotGitShapes}

\* Repositories with one linked worktree, locked or not, in every condition
\* on disk.
HealthRepositories ==
    {[PlainRepository EXCEPT !.wt[ForeignPath] =
        [ForeignWorktree(NoString) EXCEPT !.dir = disk.dir, !.dot_git = disk.dot_git,
                                          !.locked = locked]] :
        disk \in OnDisk, locked \in BOOLEAN}

\* The entries the parser can return for that worktree: `git worktree list`
\* ran before the classifier looks at the disk, so is_prunable and is_locked
\* are whatever git saw then.
HealthEntries ==
    {[path |-> ForeignPath, branch |-> branch, head |-> "sha",
      is_locked |-> lock # <<>>, lock_reason |-> IF lock = <<>> THEN NoString ELSE lock[1],
      is_prunable |-> prunable] :
        branch \in {NoString, Some(DefaultBranch)},
        lock \in {<<>>, <<NoString>>, <<Some(ActiveAgent)>>},
        prunable \in BOOLEAN}

InitHealth ==
    /\ next_operation_id = 0
    /\ repos = <<>>
    /\ worker = [r \in Repos |-> [k \in WorkerSlots |-> NoWorker]]
    /\ opHist = [i \in OpIds |-> NoOpHist]
    /\ repoHist = [r \in Repos |-> NoRepoHist]
    /\ status_reply = NoReply
    /\ processes = [r \in Repos |-> {}]
    /\ operation_lock = "free"
    /\ manager = [c \in ManagerCallers |-> "idle"]
    /\ call = [c \in ManagerCallers |-> IdleCall]
    /\ git \in HealthRepositories
    /\ classified = NotClassified
    /\ parsed = NotParsed

NextHealth == \E entry \in HealthEntries : Classify(entry)

SpecHealth == InitHealth /\ [][NextHealth]_vars

\* Lines a porcelain output is made of here: `worktree` lines of two paths,
\* HEAD, a branch, a branch whose name starts with refs/heads/, a key the
\* parser does not know, locked and prunable with and without trailing text,
\* and the blank line.
PorcelainLines ==
    { <<"worktree", " ", "/a">>, <<"worktree", " ", "/b">>,
      <<"HEAD", " ", "sha">>,
      <<"branch", " ", "refs/heads/", "main">>,
      <<"branch", " ", "refs/heads/", "refs/heads/", "x">>,
      <<"bare">>,
      <<"locked">>, <<"locked", " ", " ", "active-agent", " ">>,
      <<"prunable">>, <<"prunable", " ", "gone">>,
      <<>> }

RECURSIVE OutputsUpTo(_)
OutputsUpTo(n) ==
    IF n = 0 THEN {<<>>}
    ELSE OutputsUpTo(n - 1)
         \cup {Append(output, line) : output \in {o \in OutputsUpTo(n - 1) : Len(o) = n - 1},
                                      line \in PorcelainLines}

InitParse ==
    /\ next_operation_id = 0
    /\ repos = <<>>
    /\ worker = [r \in Repos |-> [k \in WorkerSlots |-> NoWorker]]
    /\ opHist = [i \in OpIds |-> NoOpHist]
    /\ repoHist = [r \in Repos |-> NoRepoHist]
    /\ status_reply = NoReply
    /\ processes = [r \in Repos |-> {}]
    /\ operation_lock = "free"
    /\ manager = [c \in ManagerCallers |-> "idle"]
    /\ call = [c \in ManagerCallers |-> IdleCall]
    /\ git = PlainRepository
    /\ classified = NotClassified
    /\ parsed \in {[NotParsed EXCEPT !.output = output] : output \in OutputsUpTo(MaxLines)}

\* parse_worktree_list_porcelain applied to the output.
Parse ==
    /\ ~parsed.done
    /\ parsed' = [parsed EXCEPT !.done = TRUE,
                                !.entries = parse_worktree_list_porcelain(parsed.output)]
    /\ UNCHANGED <<operation_lock, manager, call, git, classified>>
    /\ UNCHANGED coordVars

NextParse == Parse

SpecParse == InitParse /\ [][NextParse]_vars

\* ------------------------------------------------------------- observers
PendingIds(r) == {repos[r].pending[i].id : i \in 1 .. Len(repos[r].pending)}

IsPending(id) == \E r \in DOMAIN repos : id \in PendingIds(r)

\* Worker tasks of r whose command is dispatched and has produced no result.
Dispatching(r) == {k \in WorkerSlots : worker[r][k].pc = "select"}

\* Worker tasks of r that hold a popped operation.
InFlight(r) == {k \in WorkerSlots : worker[r][k].pc \in {"select", "finish"}}

\* The operation is dispatched, its result is not produced and no cancel
\* call has returned true for it.
StillExecuting(id) ==
    /\ opHist[id].cancelled_as = "no"
    /\ \E r \in Repos : \E k \in Dispatching(r) : worker[r][k].op.id = id

\* The step in which worker task k of r pops an operation.
PopStep(r, k) == worker[r][k].pc = "pop" /\ worker'[r][k].pc = "select"

\* The step in which worker task k of r resolves its select!.
SelectStep(r, k) == worker[r][k].pc = "select" /\ worker'[r][k].pc = "finish"

\* The step in which worker task k of r updates the counters.
FinishStep(r, k) == worker[r][k].pc = "finish" /\ worker'[r][k].pc = "pop"

\* The step is an enqueue call for a critical operation on r, made while r
\* has a running operation.
EnqueueCriticalWhileRunning(r) ==
    /\ next_operation_id' = next_operation_id + 1
    /\ r \in DOMAIN repos
    /\ repos[r].running.id # 0
    /\ PendingIndex(repos'[r].pending, next_operation_id') # 0
    /\ repos'[r].pending[PendingIndex(repos'[r].pending, next_operation_id')].priority
            = "critical"

\* The step is a status(r) call that returned (a reply for r that differs
\* from the previous reply).
StatusStep(r) == status_reply' # status_reply /\ status_reply'.repo_root = r

\* Some worker task holds the operation (it has been popped and dispatched).
Started(id) == \E r \in Repos, k \in WorkerSlots : worker[r][k].op.id = id

\* No operation of r is between its pop and the counter update.
Counted(r) == r \in DOMAIN repos /\ InFlight(r) = {}

\* ------------------------------------------------------------------ C1
\* C1: for every repo_root at most one coordinated command is dispatched and
\* without result at any instant, and it is the operation the repo's
\* `running` record names.
C1_OneCommandPerRepo ==
    \A r \in Repos :
        /\ Cardinality(Dispatching(r)) <= 1
        /\ \A k \in Dispatching(r) :
              r \in DOMAIN repos /\ repos[r].running.id = worker[r][k].op.id

\* An operation is running on a repo while another one waits in its deque
\* and a cancel call has already returned true.
C1_Witness ==
    \E r \in DOMAIN repos :
        /\ Dispatching(r) # {}
        /\ repos[r].pending # <<>>
        /\ \E id \in OpIds : opHist[id].cancel_true > 0

\* ------------------------------------------------------------------ C2
\* C2 (as claimed): whenever a worker starts operation i, no operation of a
\* lower class has been started on the repo before (a higher class always
\* starts first), and no operation left in the deque has a higher class than
\* i, or the same class and an earlier enqueue.
C2_StartOrderFollowsClass ==
    [][\A r \in Repos, k \in WorkerSlots :
          PopStep(r, k) =>
             LET i == worker'[r][k].op
                 low == repoHist[r].lowest_started
             IN /\ low = "none" \/ Rank(i.priority) <= Rank(low)
                /\ \A n \in 1 .. Len(repos'[r].pending) :
                      LET j == repos'[r].pending[n]
                      IN /\ Rank(j.priority) <= Rank(i.priority)
                         /\ Rank(j.priority) = Rank(i.priority) => i.id < j.id]_vars

\* C2 (amended): whenever a worker starts operation i, every operation j that
\* is pending on the repo at that moment has a class not higher than i, and
\* if it has the same class it was enqueued after i.
C2_StartOrderAmongPending ==
    [][\A r \in Repos, k \in WorkerSlots :
          PopStep(r, k) =>
             LET i == worker'[r][k].op
             IN \A n \in 1 .. Len(repos'[r].pending) :
                   LET j == repos'[r].pending[n]
                   IN /\ Rank(j.priority) <= Rank(i.priority)
                      /\ Rank(j.priority) = Rank(i.priority) => i.id < j.id]_vars

\* A critical operation was started after a lower-class one had been started,
\* while a further operation waits behind it.
C2_Witness ==
    \E k \in WorkerSlots :
        /\ worker["r1"][k].pc = "select"
        /\ worker["r1"][k].op.priority = "critical"
        /\ repoHist["r1"].lowest_started \in {"normal", "low"}
        /\ repos["r1"].pending # <<>>

\* ------------------------------------------------------------------ C3
\* C3: every pending deque is sorted by class, critical before normal before
\* low, and entries of one class are in the order of their insertion (the
\* order of their ids).
C3_PendingSorted ==
    \A r \in DOMAIN repos :
        \A m, n \in 1 .. Len(repos[r].pending) :
            m < n =>
               LET a == repos[r].pending[m]
                   b == repos[r].pending[n]
               IN /\ Rank(a.priority) >= Rank(b.priority)
                  /\ Rank(a.priority) = Rank(b.priority) => a.id < b.id

\* Insert order normal, low, critical gives the deque critical, normal, low.
C3_Witness ==
    /\ "r1" \in DOMAIN repos
    /\ Len(repos["r1"].pending) >= 3
    /\ repos["r1"].pending[1].priority = "critical"
    /\ repos["r1"].pending[1].id > repos["r1"].pending[3].id
    /\ repos["r1"].pending[2].priority = "normal"
    /\ repos["r1"].pending[2].id < repos["r1"].pending[3].id
    /\ repos["r1"].pending[3].priority = "low"

\* ------------------------------------------------------------------ C4
\* Structural worktree operations in progress: Lifecycle Manager calls inside
\* create / remove / repair, and dispatched structural commands of the
\* coordinator that have not finished.
StructuralInProgress ==
    Cardinality({c \in ManagerCallers : manager[c] \in ManagerOperations})
    + Cardinality({rk \in Repos \X WorkerSlots :
          /\ worker[rk[1]][rk[2]].pc = "select"
          /\ worker[rk[1]][rk[2]].cmd \in {"running", "elapsed"}
          /\ worker[rk[1]][rk[2]].op.command \in StructuralCommands})

\* C4: no two structural worktree operations are in progress at the same
\* time, coordinated or direct, whatever their repo_root.
C4_StructuralMutualExclusion == StructuralInProgress <= 1

\* ------------------------------------------------------------------ C5
\* C5: at every instant, cancel(id) returns true exactly when id is pending
\* or is an operation still being executed (not completed, not already
\* cancelled).
C5_CancelTrueIffPendingOrExecuting ==
    \A id \in OpIds : CancelReturns(id) <=> (IsPending(id) \/ StillExecuting(id))

\* ------------------------------------------------------------------ C6
\* C6: an operation that cancel found pending has the result "Operation
\* cancelled", is in no pending deque, is no repo's running operation and is
\* held by no worker task, from the cancel call on.
C6_PendingCancelIsFinal ==
    \A id \in OpIds :
        opHist[id].cancelled_as = "pending" =>
            /\ opHist[id].result = OperationCancelled
            /\ ~IsPending(id)
            /\ \A r \in DOMAIN repos : repos[r].running.id # id
            /\ \A r \in Repos, k \in WorkerSlots : worker[r][k].op.id # id

\* An operation was cancelled while pending and the workers went on: a later
\* operation has been executed and counted.
C6_Witness ==
    \E id \in OpIds :
        /\ opHist[id].cancelled_as = "pending"
        /\ \E later \in OpIds : later > id /\ opHist[later].result = Delivered

\* ------------------------------------------------------------------ C7
\* C7: once cancel(id) has returned true, the result delivered for id is
\* "Operation cancelled".
C7_CancelledResult ==
    \A id \in OpIds :
        (opHist[id].cancel_true > 0 /\ opHist[id].result # NoResult) =>
            opHist[id].result = OperationCancelled

\* ------------------------------------------------------------------ C8
\* C8: cancel(id) returns true at most once for an id.
C8_CancelTrueAtMostOnce == \A id \in OpIds : opHist[id].cancel_true <= 1

\* ------------------------------------------------------------------ C9
\* Operations that have left the pending deque of r by any path.
LeftQueue(r) == repoHist[r].enqueued - Len(repos[r].pending)

\* C9 (as claimed): after every counter update of the worker,
\* completed_count + failed_count is the number of operations that have left
\* the deque, completed_count the number of Ok results and failed_count the
\* number of Err results; and no step decreases a counter.
C9_CountersCoverEveryDeparture ==
    [][\A r \in DOMAIN repos :
          /\ (\E k \in WorkerSlots : FinishStep(r, k)) =>
                /\ (repos[r].completed_count + repos[r].failed_count = LeftQueue(r))'
                /\ (repos[r].completed_count = repoHist[r].ok_sent)'
                /\ (repos[r].failed_count = repoHist[r].err_sent)'
          /\ repos'[r].completed_count >= repos[r].completed_count
          /\ repos'[r].failed_count >= repos[r].failed_count]_vars

\* C9 (amended): after every counter update of the worker,
\* completed_count + failed_count is the number of operations the worker has
\* popped (those that left the deque minus those cancel removed from it),
\* completed_count the number of Ok results and failed_count the number of
\* Err results the worker has sent (the "Operation cancelled" that cancel
\* sends for a pending operation is counted nowhere); and no step decreases
\* a counter.
C9_CountersCoverPoppedOperations ==
    [][\A r \in DOMAIN repos :
          /\ (\E k \in WorkerSlots : FinishStep(r, k)) =>
                /\ (repos[r].completed_count + repos[r].failed_count
                        = LeftQueue(r) - repoHist[r].cancelled_pending)'
                /\ (repos[r].completed_count = repoHist[r].ok_sent)'
                /\ (repos[r].failed_count
                        = repoHist[r].err_sent - repoHist[r].cancelled_pending)'
          /\ repos'[r].completed_count >= repos[r].completed_count
          /\ repos'[r].failed_count >= repos[r].failed_count]_vars

\* The counters are up to date after a success, a failure and a cancel of a
\* pending operation.
C9_Witness ==
    /\ Counted("r1")
    /\ repos["r1"].completed_count = 1
    /\ repos["r1"].failed_count = 1
    /\ repoHist["r1"].cancelled_pending = 1

\* ------------------------------------------------------------------ C10
\* C10: when the worker resumes after the 60-second deadline with the command
\* not finished and no cancel sent, the result is "Operation timed out after
\* 60 seconds"; the counter update for a timed-out operation adds one to
\* failed_count, leaves completed_count and the deque alone, and the worker
\* stays active at the top of its loop.
C10_Timeout ==
    [][\A r \in Repos, k \in WorkerSlots :
          /\ (/\ SelectStep(r, k)
              /\ worker[r][k].cmd = "elapsed"
              /\ ~worker[r][k].cancel_rx
              /\ opHist[worker[r][k].op.id].cancel_true = 0)
                => /\ worker'[r][k].res = OperationTimedOut
                   /\ opHist'[worker[r][k].op.id].result = OperationTimedOut
          /\ (FinishStep(r, k) /\ worker[r][k].res = OperationTimedOut)
                => /\ repos'[r].failed_count = repos[r].failed_count + 1
                   /\ repos'[r].completed_count = repos[r].completed_count
                   /\ repos'[r].pending = repos[r].pending
                   /\ repos'[r].worker_active]_vars

\* The worker has gone on after a failed operation, and the operation it
\* holds now has timed out with no cancel sent, while another one is pending.
C10_Witness ==
    \E k \in WorkerSlots :
        /\ worker["r1"][k].pc = "finish"
        /\ worker["r1"][k].res = OperationTimedOut
        /\ ~worker["r1"][k].cancel_rx
        /\ repos["r1"].failed_count = 1
        /\ repos["r1"].pending # <<>>

\* ------------------------------------------------------------------ C11
\* C11: an operation that ends in an error (handler error, timeout, cancel)
\* does not stop the repo's worker. The counter update for it finds the error
\* already sent as the operation's result, adds one to failed_count, and
\* leaves the task alive at the top of its loop with worker_active set; and
\* every operation that is pending on the repo at that moment is dispatched
\* later (or is taken out of the deque by a cancel call before its turn).
C11_WorkerSurvivesFailure ==
    /\ [][\A r \in Repos, k \in WorkerSlots :
            (/\ worker[r][k].pc = "finish"
             /\ worker'[r][k].pc # "finish"
             /\ worker[r][k].res \in ErrorResults)
               => /\ worker'[r][k].pc = "pop"
                  /\ opHist[worker[r][k].op.id].result = worker[r][k].res
                  /\ repos'[r].failed_count = repos[r].failed_count + 1
                  /\ repos'[r].worker_active]_vars
    /\ \A r \in Repos, id \in OpIds :
          (/\ r \in DOMAIN repos
           /\ id \in PendingIds(r)
           /\ \E k \in WorkerSlots :
                 worker[r][k].pc = "finish" /\ worker[r][k].res \in ErrorResults)
             ~> (Started(id) \/ opHist[id].cancelled_as = "pending")

\* Two operations have failed and the worker has dispatched the third.
C11_Witness ==
    /\ "r1" \in DOMAIN repos
    /\ repos["r1"].failed_count = 2
    /\ \E k \in WorkerSlots :
          worker["r1"][k].pc = "select" /\ worker["r1"][k].op.id = 3

\* ------------------------------------------------------------------ C12
\* C12 (as claimed): a critical operation enqueued while an operation of the
\* repo is running leaves the running operation and its worker task as they
\* are, and is at the front of the deque, i.e. it is the operation the worker
\* pops next.
C12_CriticalRunsImmediatelyAfter ==
    [][\A r \in Repos :
          EnqueueCriticalWhileRunning(r) =>
             /\ repos'[r].running = repos[r].running
             /\ worker'[r] = worker[r]
             /\ Head(repos'[r].pending).id = next_operation_id']_vars

\* C12 (amended): a critical operation enqueued while an operation of the
\* repo is running leaves the running operation and its worker task as they
\* are; the only entries ahead of it in the deque are critical operations
\* enqueued before it, and every normal and low entry is behind it; and the
\* worker always pops the front of the deque, so that it never starts a
\* normal or low operation while a critical one is pending.
C12_CriticalRunsBeforeLowerClasses ==
    [][\A r \in Repos :
          /\ EnqueueCriticalWhileRunning(r) =>
                LET at == PendingIndex(repos'[r].pending, next_operation_id')
                IN /\ repos'[r].running = repos[r].running
                   /\ worker'[r] = worker[r]
                   /\ \A n \in 1 .. Len(repos'[r].pending) :
                         LET e == repos'[r].pending[n]
                         IN /\ n < at => e.priority = "critical" /\ e.id < next_operation_id'
                            /\ n > at => e.priority # "critical"
          /\ \A k \in WorkerSlots :
                PopStep(r, k) =>
                   /\ worker'[r][k].op = Head(repos[r].pending)
                   /\ worker'[r][k].op.priority # "critical" =>
                         \A n \in 1 .. Len(repos[r].pending) :
                            repos[r].pending[n].priority # "critical"]_vars

\* A low operation is running; a normal and then a critical operation were
\* enqueued meanwhile, and the critical one is at the front of the deque.
C12_Witness ==
    /\ "r1" \in DOMAIN repos
    /\ repos["r1"].running.id = 1
    /\ repos["r1"].running.priority = "low"
    /\ \E k \in WorkerSlots :
          worker["r1"][k].pc = "select" /\ worker["r1"][k].op.id = 1
    /\ Len(repos["r1"].pending) = 2
    /\ repos["r1"].pending[1].id = 3
    /\ repos["r1"].pending[1].priority = "critical"
    /\ repos["r1"].pending[2].priority = "normal"

\* ------------------------------------------------------------------ C13
\* C13: the repos do not wait for each other. A repo with a pending operation
\* always has a live worker task of its own, whatever the other repos are
\* doing, and every operation pending on r2 is dispatched even if the
\* operation running on r1 never finishes. That two repos run an operation
\* at the same time is C13_Witness.
C13_ReposRunIndependently ==
    /\ [](\A r \in DOMAIN repos :
            repos[r].pending # <<>> =>
               /\ repos[r].worker_active
               /\ \E k \in WorkerSlots : worker[r][k].pc # "none")
    /\ \A id \in OpIds :
          ("r2" \in DOMAIN repos /\ id \in PendingIds("r2")) ~> Started(id)

\* Both repos have a dispatched operation that has produced no result, and
\* the one of r2 was enqueued and dispatched while r1's was already running.
C13_Witness ==
    /\ \E k \in Dispatching("r1") :
          worker["r1"][k].op.id = 1 /\ worker["r1"][k].cmd = "running"
    /\ \E k \in Dispatching("r2") :
          worker["r2"][k].op.id = 3 /\ worker["r2"][k].cmd = "running"
    /\ repos["r2"].completed_count = 1

\* ------------------------------------------------------------------ C14
\* C14: a status(repo_root) call leaves the coordinator as it was: no queue
\* entry is created, no worker task is started or moved, and pending,
\* running, the counters and the id counter keep their values; and for a
\* repo_root that has never been enqueued on the reply has pending_count 0,
\* no running_operation, completed_count 0 and failed_count 0.
C14_StatusIsReadOnly ==
    [][\A r \in Repos :
          StatusStep(r) =>
             /\ repos' = repos
             /\ DOMAIN repos' = DOMAIN repos
             /\ worker' = worker
             /\ next_operation_id' = next_operation_id
             /\ repoHist[r].enqueued = 0 =>
                   /\ status_reply'.pending_count = 0
                   /\ status_reply'.running_operation = None
                   /\ status_reply'.completed_count = 0
                   /\ status_reply'.failed_count = 0]_vars

\* status has answered for the repo that was never enqueued on, which still
\* has no queue entry, while the other repo has counted an operation.
C14_Witness ==
    /\ status_reply.repo_root = "r2"
    /\ repoHist["r2"].enqueued = 0
    /\ "r2" \notin DOMAIN repos
    /\ "r1" \in DOMAIN repos
    /\ repos["r1"].completed_count + repos["r1"].failed_count >= 1

\* ------------------------------------------------------------------ C15
\* C15: the reply of a status(repo) call describes the coordinator state of
\* the instant of the call: pending_count is the length of the repo's pending
\* deque, running_operation is the operation of the repo's running record
\* (absent when there is none), and the counters are the repo's counters,
\* all of the same state.
C15_StatusSnapshotIsConsistent ==
    [][\A r \in Repos :
          (StatusStep(r) /\ r \in DOMAIN repos) =>
             /\ status_reply'.pending_count = Len(repos[r].pending)
             /\ status_reply'.running_operation.id = repos[r].running.id
             /\ repos[r].running # None =>
                   /\ status_reply'.running_operation.command = repos[r].running.command
                   /\ status_reply'.running_operation.priority = repos[r].running.priority
                   /\ status_reply'.running_operation.repo_root = r
             /\ status_reply'.completed_count = repos[r].completed_count
             /\ status_reply'.failed_count = repos[r].failed_count]_vars

\* A reply that shows a pending operation, a running operation and a counted
\* one, and is still the state of the coordinator.
C15_Witness ==
    /\ status_reply.repo_root = "r1"
    /\ status_reply.pending_count = 1
    /\ status_reply.running_operation.id = 2
    /\ status_reply.completed_count = 1
    /\ status_reply = status("r1")

\* ------------------------------------------------------------------ C16
\* C16: an operation whose command name is not in the handler table is queued
\* like any other (the deque stays sorted by class and the worker pops its
\* front); once popped, no external command runs for it; unless a cancel call
\* reached it, its result is the error "Unsupported coordinated command"; and
\* the counter update for that result adds one to failed_count and nothing to
\* completed_count.
C16_UnsupportedCommand ==
    /\ [](C3_PendingSorted
          /\ \A r \in Repos, k \in WorkerSlots :
                worker[r][k].op.id # 0 /\ worker[r][k].op.command \in UnknownCommands
                   => worker[r][k].cmd = "unsupported")
    /\ [][\A r \in Repos, k \in WorkerSlots :
            /\ PopStep(r, k) => worker'[r][k].op = Head(repos[r].pending)
            /\ (/\ SelectStep(r, k)
                /\ worker[r][k].op.command \in UnknownCommands
                /\ ~worker[r][k].cancel_rx)
                  => /\ worker'[r][k].res = UnsupportedCommand
                     /\ opHist'[worker[r][k].op.id].result = UnsupportedCommand
            /\ (FinishStep(r, k) /\ worker[r][k].res = UnsupportedCommand)
                  => /\ worker[r][k].op.command \in UnknownCommands
                     /\ repos'[r].failed_count = repos[r].failed_count + 1
                     /\ repos'[r].completed_count = repos[r].completed_count]_vars

\* A critical operation with an unknown command has overtaken an earlier
\* operation that is still pending, and its result is the error.
C16_Witness ==
    \E k \in WorkerSlots :
        /\ worker["r1"][k].pc = "finish"
        /\ worker["r1"][k].op.command \in UnknownCommands
        /\ worker["r1"][k].op.priority = "critical"
        /\ worker["r1"][k].res = UnsupportedCommand
        /\ repos["r1"].pending # <<>>
        /\ Head(repos["r1"].pending).id < worker["r1"][k].op.id

\* ------------------------------------------------------------------ C17
\* The call of c has returned this result and c has not left the call yet.
Returned(c, operation, result) ==
    manager[c] = operation /\ call[c].pc = "return" /\ call[c].result = result

\* The entries of a list of the repository as it is now that are on the branch.
ListedOnBranch(branch) ==
    {n \in 1 .. Len(list(git)) : list(git)[n].branch = branch}

\* C17: when create(repo_root, workspace_id) returns Ok, the result has the
\* branch workspace/<workspace_id>, the path <repo_root>/worktrees/<workspace_id>,
\* is_locked = true, lock_reason = active-agent and health_status = locked;
\* the worktree directory exists; and a list of the repository has an entry
\* for that branch, at that path, locked with reason active-agent and
\* classified locked.
C17_CreateSucceeds ==
    \A c \in ManagerCallers :
        Returned(c, "create", CallOk) =>
            LET ws == call[c].ws
            IN /\ call[c].created.branch_name = BranchName(ws)
               /\ call[c].created.worktree_path = WorktreePath(ws)
               /\ call[c].created.is_locked
               /\ call[c].created.lock_reason = Some(ActiveAgent)
               /\ call[c].created.health_status = "locked"
               /\ git.wt[WorktreePath(ws)].dir
               /\ \E n \in ListedOnBranch(BranchName(ws)) :
                     /\ list(git)[n].path = WorktreePath(ws)
                     /\ list(git)[n].is_locked
                     /\ list(git)[n].lock_reason = Some(ActiveAgent)
                     /\ list(git)[n].health_status = "locked"

\* create has returned Ok for beta in a repository that has the worktree of
\* alpha and a detached worktree as well.
C17_Witness ==
    /\ \E c \in ManagerCallers :
          Returned(c, "create", CallOk) /\ call[c].ws = "beta"
    /\ git.wt[WorktreePath("alpha")].registered
    /\ git.wt[ForeignPath].registered
    /\ Len(list(git)) = 4

\* ------------------------------------------------------------------ C18
\* create(repo_root, ws) would run through on the repository g: the
\* duplicate-branch check passes, `git worktree add` and the lock succeed.
CreateWouldSucceed(g, ws) ==
    LET branch == BranchName(ws)
        path == WorktreePath(ws)
        branched == IF GitBranchOk(g, branch) THEN GitBranch(g, branch) ELSE g
    IN /\ \A n \in 1 .. Len(list_internal(g)) : list_internal(g)[n].branch # Some(branch)
       /\ GitWorktreeAddOk(branched, path, branch)
       /\ GitWorktreeLockOk(GitWorktreeAdd(branched, path, branch), path)

CreateFoundDuplicate(c) ==
    Returned(c, "create", DuplicateBranch(BranchName(call[c].ws)))

\* C19: a create whose duplicate-branch check runs while a listed worktree is
\* on the branch workspace/<workspace_id> returns the error that names the
\* branch, and neither the check nor anything the call does afterwards
\* changes the repository: nothing is fetched, no branch, worktree, lock or
\* directory is made.
C19_DuplicateBranchRejected ==
    [][\A c \in ManagerCallers :
          /\ (/\ manager[c] = "create"
              /\ call[c].pc = "check"
              /\ call'[c] # call[c]
              /\ ListedOnBranch(BranchName(call[c].ws)) # {})
                => /\ CreateFoundDuplicate(c)'
                   /\ git' = git
          /\ CreateFoundDuplicate(c) => git' = git]_vars

\* create for alpha has been refused because a worktree that the manager did
\* not make is on workspace/alpha; nothing has been fetched or made.
C19_Witness ==
    /\ \E c \in ManagerCallers : CreateFoundDuplicate(c) /\ call[c].ws = "alpha"
    /\ git.wt[ForeignPath].branch = Some(BranchName("alpha"))
    /\ ~git.fetched
    /\ ~git.worktrees_dir
    /\ ~git.wt[WorktreePath("alpha")].registered

\* ------------------------------------------------------------------ C20
\* C20: no reply of a list call has two entries with the same branch value.
C20_ListHasOneEntryPerBranch ==
    \A c \in ManagerCallers :
        manager[c] = "list" =>
            \A m, n \in 1 .. Len(call[c].listed) :
                m # n => call[c].listed[m].branch # call[c].listed[n].branch

\* ------------------------------------------------------------------ C21
\* The `.git` shapes that are valid metadata: a directory, or a file whose
\* gitdir: path exists.
ValidShapes == {"dir", "gitdir_file"}

\* C21: for every combination of directory present or not, is_prunable, shape
\* of the `.git` entry and is_locked, the health is orphaned iff the path is
\* absent or the entry prunable; corrupted iff it is not orphaned and the
\* metadata is invalid; locked iff it is neither and the entry is locked;
\* healthy otherwise.
C21_HealthClassification ==
    classified # NotClassified =>
        LET disk == git.wt[classified.entry.path]
            orphaned == ~disk.dir \/ classified.entry.is_prunable
            corrupted == ~orphaned /\ disk.dot_git \notin ValidShapes
            locked == ~orphaned /\ ~corrupted /\ classified.entry.is_locked
        IN /\ classified.health_status = "orphaned" <=> orphaned
           /\ classified.health_status = "corrupted" <=> corrupted
           /\ classified.health_status = "locked" <=> locked
           /\ classified.health_status = "healthy" <=> ~orphaned /\ ~corrupted /\ ~locked

\* A locked entry whose `.git` file names a path that is gone is classified
\* corrupted, not locked.
C21_Witness ==
    /\ classified.health_status = "corrupted"
    /\ classified.entry.is_locked
    /\ git.wt[ForeignPath].dot_git = "gitdir_dangling"

\* ------------------------------------------------------------------ C22
\* C22: every call of create, remove, repair and list holds operation_lock
\* from its first step to its return, so that no two calls overlap: while a
\* caller is inside list, the lock is its own and no other caller is inside
\* create, remove, repair or list.
C22_EveryOperationHoldsTheLock ==
    \A c \in ManagerCallers :
        manager[c] # "idle" =>
            /\ operation_lock = c
            /\ \A d \in ManagerCallers \ {c} : manager[d] = "idle"

\* ------------------------------------------------------------------ C23
\* Errors that only a best-effort step can produce.
BestEffortFailures == {FailedToReadMetadata, FailedToPrune}

\* The step is one of the call of c, made at this position.
StepAt(c, operation, pc) ==
    manager[c] = operation /\ call[c].pc = pc /\ call'[c] # call[c]

\* The call of c has returned an error.
ReturnedError(c) == call[c].pc = "return" /\ call[c].result # CallOk

\* C23: no call of create, remove or repair returns the error of a
\* best-effort step: a failing fetch leaves create going, a failing index.lock
\* cleanup leaves remove and repair going, a failing branch delete or prune
\* leaves remove returning Ok, a failing prune leaves repair going. And a
\* failing mandatory step (duplicate-branch check, worktree add, lock, unlock
\* other than "is not locked", worktree remove) makes the call return an
\* error.
C23_OnlyMandatoryStepsFailTheCall ==
    /\ [](\A c \in ManagerCallers :
            call[c].pc = "return" => call[c].result \notin BestEffortFailures)
    /\ [][\A c \in ManagerCallers :
            LET path == WorktreePath(call[c].ws)
                branch == BranchName(call[c].ws)
            IN /\ (StepAt(c, "create", "branch") /\ Runs(git, "branch"))
                     => call'[c].pc = "add"
               /\ StepAt(c, "remove", "finish") => call'[c].result = CallOk
               /\ (StepAt(c, "repair", "repair") /\ Runs(git, "repair"))
                     => call'[c].pc = "cleanup"
               /\ (StepAt(c, "repair", "cleanup") /\ Runs(git, "list"))
                     => call'[c].result = CallOk
               /\ (/\ StepAt(c, "create", "check")
                   /\ ~Runs(git, "list") \/ ListedOnBranch(branch) # {})
                     => ReturnedError(c)'
               /\ (StepAt(c, "create", "add") /\ ~GitWorktreeAddOk(git, path, branch))
                     => ReturnedError(c)'
               /\ (StepAt(c, "create", "lock") /\ ~GitWorktreeLockOk(git, path))
                     => ReturnedError(c)'
               /\ (/\ StepAt(c, "remove", "unlock")
                   /\ ~GitWorktreeUnlockOk(git, path)
                   /\ ~GitWorktreeUnlockNotLocked(git, path))
                     => ReturnedError(c)'
               /\ (StepAt(c, "remove", "remove") /\ ~GitWorktreeRemoveOk(git, path))
                     => ReturnedError(c)']_vars

\* ------------------------------------------------------------------ C24
\* No call is inside the coordinator mutex in any state of the model (every
\* mutex section is one step); the repo is quiescent when, in addition, none
\* of its worker tasks is on its way to a mutex section: each is suspended in
\* its select! or does not exist.
Quiescent(r) == \A k \in WorkerSlots : worker[r][k].pc \in {"none", "select"}

\* C24: at every quiescent point of a repo, worker_active is true iff the
\* repo has a running operation or a non-empty pending deque; and in every
\* state, worker_active = false implies that pending is empty and running is
\* absent.
C24_WorkerActiveIffWork ==
    \A r \in Repos :
        /\ Quiescent(r) =>
              (QueueOf(r).worker_active
                  <=> (QueueOf(r).running # None \/ QueueOf(r).pending # <<>>))
        /\ ~QueueOf(r).worker_active =>
              QueueOf(r).pending = <<>> /\ QueueOf(r).running = None

\* The worker has drained the deque and returned after three operations: the
\* repo is quiescent with worker_active false, and nothing pending or running.
C24_Witness ==
    /\ "r1" \in DOMAIN repos
    /\ Quiescent("r1")
    /\ ~repos["r1"].worker_active
    /\ repos["r1"].completed_count + repos["r1"].failed_count = 3

\* ------------------------------------------------------------------ C25
\* The process_repo_queue tasks of r that have been spawned and have not
\* returned.
LiveWorkers(r) == {k \in WorkerSlots : worker[r][k].pc # "none"}

\* C25: a repo never has two worker loops. At most one task of the repo is
\* alive, and worker_active is set while it is; a step spawns a task only if
\* worker_active was false before it, and sets it; the step in which a task
\* clears worker_active is the step in which it returns, holding no
\* operation, so that it never pops or dispatches afterwards.
C25_OneWorkerLoopPerRepo ==
    /\ [](\A r \in Repos :
            /\ Cardinality(LiveWorkers(r)) <= 1
            /\ LiveWorkers(r) # {} => QueueOf(r).worker_active)
    /\ [][\A r \in Repos, k \in WorkerSlots :
            /\ (worker[r][k].pc = "none" /\ worker'[r][k].pc # "none")
                  => /\ ~QueueOf(r).worker_active
                     /\ repos'[r].worker_active
                     /\ worker'[r][k].pc = "pop"
            /\ (QueueOf(r).worker_active /\ ~repos'[r].worker_active)
                  => /\ LiveWorkers(r) = {k} => worker[r][k].pc = "pop"
                     /\ worker'[r] = [j \in WorkerSlots |-> NoWorker]]_vars

\* The worker has counted an operation, found the deque empty and is about to
\* return, when an enqueue arrives: the operation is in the deque, the task
\* is the only one of the repo and worker_active is still set.
C25_Witness ==
    /\ "r1" \in DOMAIN repos
    /\ repos["r1"].completed_count + repos["r1"].failed_count = 2
    /\ repos["r1"].running = None
    /\ Len(repos["r1"].pending) = 1
    /\ LiveWorkers("r1") = {1}
    /\ worker["r1"][1].pc = "pop"

\* ------------------------------------------------------------------ C26
\* The step is an enqueue call on r.
EnqueueStep(r) ==
    /\ next_operation_id' = next_operation_id + 1
    /\ r \in DOMAIN repos'
    /\ next_operation_id' \in PendingIds(r)'

\* C26: an operation in a pending deque always has a worker: worker_active is
\* set for the repo and a task of the repo is alive. In particular, when an
\* enqueue finds a worker that has emptied the deque and has not yet looked
\* at it again, that worker stays, and when it finds no worker it spawns one.
C26_NoStrandedOperation ==
    /\ [](\A r \in DOMAIN repos :
            repos[r].pending # <<>> =>
                repos[r].worker_active /\ LiveWorkers(r) # {})
    /\ [][\A r \in Repos :
            EnqueueStep(r) =>
               /\ LiveWorkers(r) # {} => worker'[r] = worker[r]
               /\ LiveWorkers(r) = {} =>
                     \E k \in WorkerSlots : worker'[r][k].pc = "pop"]_vars

\* An enqueue has arrived between the counter update of the last operation
\* and the worker's next look at the deque, which a cancel had emptied.
C26_Witness ==
    /\ "r1" \in DOMAIN repos
    /\ repoHist["r1"].cancelled_pending = 1
    /\ repos["r1"].completed_count + repos["r1"].failed_count = 1
    /\ PendingIds("r1") = {3}
    /\ \E k \in LiveWorkers("r1") : worker["r1"][k].pc = "pop"

\* ------------------------------------------------------------------ C27
\* enqueue on every repo, status of every repo and cancel of every id can
\* take the coordinator mutex and run to their end now (as far as the bounds
\* of the model leave the call to be made).
CallsCanComplete ==
    /\ \A r \in Repos : ENABLED Status(r)
    /\ next_operation_id < MaxOps =>
          \A r \in Repos : ENABLED Enqueue(r, "normal", "git_status")
    /\ \A id \in OpIds : opHist[id].cancel_true < MaxCancels => ENABLED Cancel(id)

\* C27: while a command is being dispatched, from the publication of the
\* operation as running to the delivery of its result, no worker task holds
\* the coordinator mutex, and enqueue (on any repo), status and cancel calls
\* run to their end.
C27_MutexFreeDuringDispatch ==
    \A r \in Repos :
        DispatchInProgress(r) => StateLockFree /\ CallsCanComplete

\* While operation 1 of r1 is being dispatched, an enqueue on r1 and one on
\* r2 have returned their ids, a cancel has returned true for the operation
\* pending on r1, and a status call has then shown operation 1 as running
\* with nothing pending.
C27_Witness ==
    /\ \E k \in WorkerSlots :
          /\ worker["r1"][k].pc = "select"
          /\ worker["r1"][k].op.id = 1
          /\ worker["r1"][k].cmd = "running"
    /\ opHist[2].cancelled_as = "pending"
    /\ "r2" \in DOMAIN repos
    /\ status_reply.repo_root = "r1"
    /\ status_reply.running_operation.id = 1
    /\ status_reply.pending_count = 0
    /\ status_reply.failed_count = 0

\* ------------------------------------------------------------------ C28
\* The worker task k of r gives up its wait for a command whose external
\* process is alive: the result is the cancel or the timeout error.
Abandons(r, k) ==
    /\ SelectStep(r, k)
    /\ worker[r][k].op.id \in processes[r]
    /\ worker'[r][k].res \in {OperationCancelled, OperationTimedOut}

\* External processes of r that no worker task awaits.
Unawaited(r) ==
    {id \in processes[r] : \A k \in WorkerSlots : worker[r][k].op.id # id}

\* C28: a cancel or a timeout of a running operation ends the worker's wait
\* and nothing else. A worker whose cancel signal has arrived can go on at
\* once, whatever the external process does; giving up the wait delivers the
\* error and leaves the process alive; no step of the worker ends the process
\* afterwards (it ends by itself, with the coordinator state as it was); and
\* a worker at the top of its loop can pop the next pending operation while
\* processes it left behind are alive.
C28_AbandonedProcessLivesOn ==
    /\ [](\A r \in Repos, k \in WorkerSlots :
            /\ (worker[r][k].pc = "select" /\ worker[r][k].cancel_rx)
                  => ENABLED WorkerSelect(r, k)
            /\ worker[r][k].pc = "pop" => ENABLED WorkerPop(r, k))
    /\ [][\A r \in Repos :
            /\ \A k \in WorkerSlots :
                  Abandons(r, k) =>
                     /\ processes' = processes
                     /\ opHist'[worker[r][k].op.id].result = worker'[r][k].res
            /\ \A id \in OpIds :
                  (id \in processes[r] /\ id \notin processes'[r]) =>
                     \/ \E k \in WorkerSlots :
                           /\ worker[r][k].op.id = id
                           /\ worker[r][k].pc = "select"
                           /\ worker'[r][k].cmd \in {"ok", "err"}
                     \/ id \in Unawaited(r) /\ worker' = worker /\ repos' = repos]_vars

\* Operation 1 was cancelled while its command was running, operation 2
\* timed out, and the worker has dispatched operation 3 while the external
\* processes of 1 and 2 are alive.
C28_Witness ==
    /\ opHist[1] = RetiredOpHist
    /\ repos["r1"].failed_count = 2
    /\ Unawaited("r1") = {1, 2}
    /\ \E k \in WorkerSlots :
          /\ worker["r1"][k].pc = "select"
          /\ worker["r1"][k].op.id = 3
          /\ worker["r1"][k].cmd = "running"
    /\ processes["r1"] = {1, 2, 3}

\* ------------------------------------------------------------------ C29
\* Operations for which a value has been sent on the result one-shot.
Answered == {id \in OpIds : opHist[id].result # NoResult}

\* The places that hold the operation and its result sender: pending deque
\* positions and worker tasks.
Holders(id) ==
    Cardinality({rn \in Repos \X (1 .. MaxOps) :
                    /\ rn[1] \in DOMAIN repos
                    /\ rn[2] <= Len(repos[rn[1]].pending)
                    /\ repos[rn[1]].pending[rn[2]].id = id})
    + Cardinality({rk \in Repos \X WorkerSlots : worker[rk[1]][rk[2]].op.id = id})

\* C29: the result of an operation is sent at most once, by the cancel call
\* that removes it from the deque or by the worker that popped it. At every
\* instant the operation is held in at most one place, a pending operation
\* has no result yet, the results sent on the repo are as many as the
\* operations that have one, an operation cancelled while pending never has
\* a worker, and no step sends a second value for an operation.
C29_ResultSentOnce ==
    /\ [](/\ \A id \in OpIds :
                /\ Holders(id) <= 1
                /\ IsPending(id) => opHist[id].result = NoResult
                /\ opHist[id].cancelled_as = "pending" => Holders(id) = 0
          /\ repoHist["r1"].ok_sent + repoHist["r1"].err_sent = Cardinality(Answered))
    /\ [][\A id \in OpIds :
            (opHist[id].result # NoResult /\ opHist'[id].result # opHist[id].result)
               => /\ opHist'[id].result = Delivered
                  /\ repoHist' = repoHist]_vars

\* Operation 2 was cancelled in the deque while operation 1 was running;
\* operation 1 got the worker's result and a later cancel call for it came
\* too late to send anything.
C29_Witness ==
    /\ opHist[2].cancelled_as = "pending"
    /\ opHist[1].result = HandlerOk
    /\ opHist[1].cancel_true = 1
    /\ repoHist["r1"].ok_sent = 1
    /\ repoHist["r1"].err_sent = 1

\* ------------------------------------------------------------------ C30
\* The deque holds an operation of a higher class than the pending
\* operation id.
HigherClassPending(id) ==
    \E r \in DOMAIN repos :
        /\ id \in PendingIds(r)
        /\ \E n \in 1 .. Len(repos[r].pending) :
              Rank(repos[r].pending[n].priority)
                 > Rank(repos[r].pending[PendingIndex(repos[r].pending, id)].priority)

\* C30 (as claimed): with the worker tasks scheduled fairly and every
\* dispatched command finishing or timing out, every pending operation gets
\* a result, also a low one while critical operations keep being enqueued.
C30_EveryOperationAnswered ==
    \A id \in OpIds : IsPending(id) ~> (opHist[id].result # NoResult)

\* C30 (amended): with the worker tasks scheduled fairly and every dispatched
\* command finishing or timing out, every pending operation gets a result
\* unless operations of a higher class are in the deque with it again and
\* again without end.
C30_AnsweredUnlessOvertakenForever ==
    \A id \in OpIds :
        (<>[](~HigherClassPending(id)))
            => (IsPending(id) ~> (opHist[id].result # NoResult))

\* A low operation has been counted after critical operations that were
\* enqueued later than it, one of them under an id that is in use for the
\* second time.
C30_Witness ==
    /\ next_operation_id = MaxOps
    /\ repoHist["r1"].enqueued = MaxOps
    /\ repos["r1"].completed_count + repos["r1"].failed_count = MaxOps
    /\ repoHist["r1"].lowest_started = "low"
    /\ \E k \in WorkerSlots :
          worker["r1"][k].pc = "select" /\ worker["r1"][k].op.priority = "critical"

\* ------------------------------------------------------------------ C31
\* Results the worker tasks of r have sent on result one-shots.
SentByWorkers(r) ==
    repoHist[r].ok_sent + repoHist[r].err_sent - repoHist[r].cancelled_pending

\* C31: a status reply for r does not name as running_operation an operation
\* whose result a worker has already sent to the enqueue caller, and its
\* completed_count + failed_count covers every result the workers have sent.
C31_StatusAfterDelivery ==
    [][\A r \in Repos :
          (StatusStep(r) /\ r \in DOMAIN repos) =>
             /\ \A k \in WorkerSlots :
                   worker[r][k].pc = "finish" =>
                      status_reply'.running_operation.id # worker[r][k].op.id
             /\ status_reply'.completed_count + status_reply'.failed_count
                   >= SentByWorkers(r)]_vars

\* ------------------------------------------------------------------ C32
\* C32: an operation whose params do not deserialize into the schema of its
\* command never has an external command running; unless a cancel call
\* reached it, its result is the invalid-params error; and the counter update
\* for that result adds one to failed_count and nothing to completed_count.
C32_InvalidParams ==
    /\ [](\A r \in Repos, k \in WorkerSlots :
             (worker[r][k].op.id # 0
                /\ worker[r][k].op.params = ParamsWithoutRepoPath)
                => /\ worker[r][k].cmd = "invalid_params"
                   /\ worker[r][k].op.id \notin processes[r])
    /\ [][\A r \in Repos, k \in WorkerSlots :
            /\ (/\ SelectStep(r, k)
                /\ worker[r][k].op.params = ParamsWithoutRepoPath
                /\ ~worker[r][k].cancel_rx)
                  => /\ worker'[r][k].res = InvalidParams
                     /\ opHist'[worker[r][k].op.id].result = InvalidParams
            /\ (FinishStep(r, k) /\ worker[r][k].res = InvalidParams)
                  => /\ worker[r][k].op.params = ParamsWithoutRepoPath
                     /\ repos'[r].failed_count = repos[r].failed_count + 1
                     /\ repos'[r].completed_count = repos[r].completed_count]_vars

\* An operation with a payload that does not match has been answered with
\* the invalid-params error while another operation waits, after an operation
\* with a matching payload was counted as completed.
C32_Witness ==
    /\ "r1" \in DOMAIN repos
    /\ repos["r1"].completed_count = 1
    /\ repos["r1"].pending # <<>>
    /\ \E k \in WorkerSlots :
          /\ worker["r1"][k].pc = "finish"
          /\ worker["r1"][k].op.params = ParamsWithoutRepoPath
          /\ worker["r1"][k].res = InvalidParams

\* ------------------------------------------------------------------ C33
\* C33: `git worktree remove` is run by remove only on a worktree that is not
\* locked. The unlock step of remove (after an index.lock cleanup that did
\* not fail) goes on to `git worktree remove` when the worktree is registered
\* and `git worktree unlock` works, whether the worktree was locked or not,
\* and leaves it registered and not locked; on any other outcome of the
\* unlock remove returns the unlock error and the repository is as the
\* cleanup left it: no worktree removed, no branch deleted, nothing pruned.
C33_UnlockBeforeRemove ==
    /\ [](\A c \in ManagerCallers :
             (manager[c] = "remove" /\ call[c].pc = "remove")
                => ~git.wt[WorktreePath(call[c].ws)].locked)
    /\ [][\A c \in ManagerCallers :
            LET path == WorktreePath(call[c].ws)
            IN (StepAt(c, "remove", "unlock") /\ cleanup_index_lock_ok(git, path)) =>
                  IF git.wt[path].registered /\ git.broken # "unlock"
                  THEN /\ call'[c].pc = "remove"
                       /\ git'.wt[path].registered
                       /\ ~git'.wt[path].locked
                       /\ git'.branches = git.branches
                  ELSE /\ call'[c].pc = "return"
                       /\ call'[c].result = FailedToUnlock
                       /\ git' = cleanup_index_lock_for_worktree(git, path)]_vars

\* A remove of a worktree that was registered and not locked has got past
\* its unlock step to `git worktree remove`.
C33_Witness ==
    \E c \in ManagerCallers :
        /\ manager[c] = "remove" /\ call[c].pc = "remove"
        /\ git.wt[WorktreePath(call[c].ws)].registered
        /\ git.wt[WorktreePath(call[c].ws)].lock_reason = NoString
        /\ git.broken = "lock"

\* ------------------------------------------------------------------ C34
\* The paths list_internal reports for the repository.
ListedPaths(g) == {list_internal(g)[n].path : n \in 1 .. Len(list_internal(g))}

\* No step of a repair call changes the lock state, the lock reason or the
\* branch of a worktree that is listed after the step.
RepairKeepsLocksAndBranches ==
    \A c \in ManagerCallers :
        (manager[c] = "repair" /\ call'[c] # call[c] /\ manager'[c] = "repair") =>
            \A path \in ListedPaths(git') :
                /\ git'.wt[path].locked = git.wt[path].locked
                /\ git'.wt[path].lock_reason = git.wt[path].lock_reason
                /\ git'.wt[path].branch = git.wt[path].branch

C35_CreateIsAllOrNothing ==
    \A c \in ManagerCallers :
        Returned(c, "create", FailedToLock) =>
            /\ ~git.wt[WorktreePath(call[c].ws)].registered
            /\ ~git.wt[WorktreePath(call[c].ws)].dir

\* ------------------------------------------------------------------ C36
\* C36: the queue of a repo_root holds and runs exactly the operations whose
\* request had that repo_root string, whatever directory their params name:
\* at most one of them is dispatched at a time, and a worker task of a
\* repo_root with a pending operation can pop it whatever the queues of the
\* other repo_root strings are doing. That operations of two repo_root
\* strings run in the same directory at the same time is C36_Witness.
C36_PartitionByRepoRootString ==
    \A r \in Repos :
        /\ r \in DOMAIN repos =>
              /\ \A n \in 1 .. Len(repos[r].pending) : repos[r].pending[n].repo_root = r
              /\ repos[r].running # None => repos[r].running.repo_root = r
        /\ \A k \in WorkerSlots :
              worker[r][k].op.id # 0 => worker[r][k].op.repo_root = r
        /\ Cardinality(Dispatching(r)) <= 1
        /\ \A k \in WorkerSlots :
              (worker[r][k].pc = "pop" /\ r \in DOMAIN repos /\ repos[r].pending # <<>>)
                  => ENABLED WorkerPop(r, k)

\* Operations enqueued for r1 and for r2, both with the directory of r1 as
\* repoPath, are dispatched at the same time and both external commands run.
C36_Witness ==
    \E k1 \in Dispatching("r1"), k2 \in Dispatching("r2") :
        /\ worker["r1"][k1].op.params = ParamsFor("r1")
        /\ worker["r2"][k2].op.params = ParamsFor("r1")
        /\ worker["r1"][k1].cmd = "running"
        /\ worker["r2"][k2].cmd = "running"
        /\ worker["r1"][k1].op.id \in processes["r1"]
        /\ worker["r2"][k2].op.id \in processes["r2"]

\* ------------------------------------------------------------------ C37
\* The places of the coordinator state that hold the id: entries of pending
\* deques and running records, over all repos.
Places(id) ==
    {<<r, n>> : r \in DOMAIN repos, n \in 0 .. MaxOps} \cap
    {rn \in (DOMAIN repos) \X (0 .. MaxOps) :
        IF rn[2] = 0
        THEN repos[rn[1]].running.id = id
        ELSE rn[2] <= Len(repos[rn[1]].pending) /\ repos[rn[1]].pending[rn[2]].id = id}

\* What the coordinator holds of the operation with the id: where it is
\* pending or running, the cancel sender of its running record, its result
\* and the cancel signal of the task that holds it.
Holding(id) ==
    [pending |-> {r \in DOMAIN repos : id \in PendingIds(r)},
     running |-> {<<r, repos[r].running.cancel_tx>> :
                     r \in {q \in DOMAIN repos : repos[q].running.id = id}},
     result |-> opHist[id].result,
     signalled |-> {<<r, k>> \in Repos \X WorkerSlots :
                      worker[r][k].op.id = id /\ worker[r][k].cancel_rx}]

\* C37: every enqueue call gives its operation an id greater than every id
\* given before, whatever the repo_root; an id is in at most one place of the
\* coordinator state (one pending entry or one running record, over all
\* repos); and a cancel(id) call that returns true changes nothing of any
\* operation with another id.
C37_OperationIdsAreUnique ==
    /\ [](\A id \in OpIds :
             /\ Cardinality(Places(id)) <= 1
             /\ Places(id) # {} => id <= next_operation_id)
    /\ [][/\ next_operation_id' # next_operation_id =>
               /\ next_operation_id' = next_operation_id + 1
               /\ \E r \in DOMAIN repos' :
                     /\ next_operation_id' \in PendingIds(r)'
                     /\ \A id \in OpIds \ {next_operation_id'} :
                           Holding(id)' = Holding(id)
          /\ \A id \in OpIds :
               opHist'[id].cancel_true > opHist[id].cancel_true =>
                  \A other \in OpIds \ {id} : Holding(other)' = Holding(other)]_vars

\* Operations of two repos are pending and running, the ids given in the
\* order of the enqueue calls across the repos, and a cancel call for one of
\* them has returned true.
C37_Witness ==
    /\ next_operation_id = MaxOps
    /\ "r1" \in DOMAIN repos /\ "r2" \in DOMAIN repos
    /\ repos["r1"].running.id = 1
    /\ repos["r2"].running.id = 2
    /\ 3 \in PendingIds("r1")
    /\ opHist[2].cancel_true = 1

\* ------------------------------------------------------------------ C38
\* The positions of the lines of the output that start with "worktree ".
RecordStarts(output) ==
    {n \in 1 .. Len(output) : StartsWithKey(output[n], "worktree")}

\* The position of the i-th of them.
RecordStart(output, i) ==
    CHOOSE n \in RecordStarts(output) :
        Cardinality({m \in RecordStarts(output) : m <= n}) = i

\* The positions of the lines after the i-th "worktree " line and before the
\* next one.
RecordLines(output, i) ==
    {n \in 1 .. Len(output) :
        /\ n > RecordStart(output, i)
        /\ \A m \in RecordStarts(output) : m <= RecordStart(output, i) \/ m > n}

\* C38: the parser returns one entry for every line that starts with
\* "worktree ", in the order of these lines and with the path of the line,
\* also for the last one when no blank line follows. An entry is locked,
\* prunable, on a branch or with a head exactly when a locked, prunable,
\* branch or HEAD line stands between its "worktree " line and the next:
\* lines before the first "worktree " line, lines of other records and lines
\* with other keys have no part in it.
C38_OneEntryPerWorktreeLine ==
    parsed.done =>
        /\ Len(parsed.entries) = Cardinality(RecordStarts(parsed.output))
        /\ \A i \in 1 .. Len(parsed.entries) :
              LET own == RecordLines(parsed.output, i)
                  entry == parsed.entries[i]
              IN /\ <<"worktree", " ", entry.path>>
                        = parsed.output[RecordStart(parsed.output, i)]
                 /\ entry.is_locked
                        <=> \E n \in own : IsKeyLine(parsed.output[n], "locked")
                 /\ entry.is_prunable
                        <=> \E n \in own : IsKeyLine(parsed.output[n], "prunable")
                 /\ entry.branch # NoString
                        <=> \E n \in own : StartsWithKey(parsed.output[n], "branch")
                 /\ entry.head # ""
                        <=> \E n \in own : StartsWithKey(parsed.output[n], "HEAD")
                 /\ entry.lock_reason # NoString
                        => \E n \in own : StartsWithKey(parsed.output[n], "locked")

\* An output of a locked line, a "worktree " line, a prunable line and a
\* second "worktree " line with nothing after it has given two entries, the
\* first prunable and not locked.
C38_Witness ==
    /\ parsed.done
    /\ Len(parsed.output) = 4
    /\ parsed.output[1] = <<"locked">>
    /\ parsed.output[3] = <<"prunable">>
    /\ Len(parsed.entries) = 2
    /\ parsed.entries[1].is_prunable /\ ~parsed.entries[1].is_locked
    /\ parsed.entries[2].path = "/b"

\* ------------------------------------------------------------------ C39
\* The tokens without one leading occurrence of the prefix.
WithoutOneLeading(tokens, prefix) ==
    IF tokens # <<>> /\ Head(tokens) = prefix THEN Tail(tokens) ELSE tokens

\* The lines with the key among these positions of the output.
KeyLines(output, positions, key) ==
    {n \in positions : IsKeyLine(output[n], key)}

\* C39: for every entry whose record has one branch line, branch is the value
\* of that line without one leading "refs/heads/", and an entry without a
\* branch line has no branch; for every entry whose record has one locked
\* line, is_locked is set and lock_reason is the trimmed text after "locked",
\* absent when there is none; a prunable line sets is_prunable, and an entry
\* without a locked line is not locked and has no lock_reason, whatever its
\* prunable lines say.
C39_RecordFields ==
    parsed.done =>
        \A i \in 1 .. Len(parsed.entries) :
            LET own == RecordLines(parsed.output, i)
                entry == parsed.entries[i]
                branches == KeyLines(parsed.output, own, "branch")
                locks == KeyLines(parsed.output, own, "locked")
                prunables == KeyLines(parsed.output, own, "prunable")
            IN /\ branches = {} => entry.branch = NoString
               /\ \A n \in branches :
                     branches = {n} =>
                        entry.branch =
                           Some(Text(WithoutOneLeading(
                                SubSeq(parsed.output[n], 3, Len(parsed.output[n])),
                                "refs/heads/")))
               /\ \A n \in locks :
                     locks = {n} =>
                        /\ entry.is_locked
                        /\ entry.lock_reason =
                              IF Trim(Tail(parsed.output[n])) = <<>> THEN NoString
                              ELSE Some(Text(Trim(Tail(parsed.output[n]))))
               /\ prunables # {} => entry.is_prunable
               /\ locks = {} => ~entry.is_locked /\ entry.lock_reason = NoString

====
